---- MODULE Spec2Model ----
(***************************************************************************)
(* Configuration registry, capability predicates and provider factories of *)
(* the Xion stack template (lib/config.ts, lib/auth.ts, lib/database.ts,   *)
(* lib/payments.ts).                                                       *)
(*                                                                         *)
(* Conventions                                                             *)
(*   - the process environment is a function from the names of the set     *)
(*     variables to their string values; an unset variable is not in its   *)
(*     domain;                                                             *)
(*   - a JavaScript value of type string | undefined is a sequence: <<>>   *)
(*     is undefined and <<s>> is the string s;                             *)
(*   - the outcome of a call is a record: kind "return" with its value, or *)
(*     kind "throw" with the class and the message of the thrown error;    *)
(*   - a diagnostic or validation message is kept as its sequence of words *)
(*     (quotes and punctuation dropped);                                   *)
(*   - an email address or a display name is the sequence of its pieces,   *)
(*     each "@" a piece of its own: <<"a", "@", "b.com">>.                 *)
(***************************************************************************)
EXTENDS Naturals, Sequences, FiniteSets, TLC

VARIABLES
    env,        \* process.env
    config,     \* lib/config: the exported registry
    loaded,     \* the modules whose evaluation has completed
    last,       \* the last call made and its outcome
    diag,       \* what has been written with console.warn / console.error
    authModule, \* which of the two definitions of lib/auth is built
    auth,       \* lib/auth: the exported provider instance
    db,         \* lib/database: the exported provider instance
    payments,   \* lib/payments: the exported provider instance
    users,      \* MockAuthProvider.users, in insertion order
    session,    \* the hosted auth service's current user, or Null
    hook,       \* a component using useAuth: its state and its calls in flight
    runtime,    \* "browser" when window is defined, "server" otherwise
    storage     \* localStorage: the parsed value of the key of each table that has one

configVars == <<env, config, loaded>>

moduleVars == <<authModule, auth, db, payments>>

authVars == <<users, session>>

appVars == <<hook, runtime, storage>>

vars ==
    <<env, config, loaded, last, diag, authModule, auth, db, payments, users, session, hook,
      runtime, storage>>

----------------------------------------------------------------------------
(* Bounds *)

MaxEnvVars == 3

MaxTime == 2

MaxPending == 2

MaxRows == 2

----------------------------------------------------------------------------
(* JavaScript values *)

Undefined == <<>>

Null == [null |-> TRUE]

Some(s) == <<s>>

Truthy(v) == v # Undefined /\ v # <<"">>

OrElse(v, d) == IF Truthy(v) THEN v[1] ELSE d

ProcessEnv(e, k) == IF k \in DOMAIN e THEN <<e[k]>> ELSE Undefined

Return(v) == [kind |-> "return", value |-> v, error |-> "", message |-> ""]

Throw(cls, msg) == [kind |-> "throw", value |-> Undefined, error |-> cls, message |-> msg]

----------------------------------------------------------------------------
(* lib/config.ts *)

FeatureOrder ==
    <<"authentication", "database", "payments", "realtime",
      "analytics", "email", "fileUpload", "notifications">>

Features == {FeatureOrder[i] : i \in DOMAIN FeatureOrder}

Providers == {"supabase", "stripe", "auth0", "sendgrid", "aws"}

FeatureEnvVar(f) ==
    CASE f = "authentication" -> "NEXT_PUBLIC_ENABLE_AUTH"
      [] f = "database"       -> "NEXT_PUBLIC_ENABLE_DATABASE"
      [] f = "payments"       -> "NEXT_PUBLIC_ENABLE_PAYMENTS"
      [] f = "realtime"       -> "NEXT_PUBLIC_ENABLE_REALTIME"
      [] f = "analytics"      -> "NEXT_PUBLIC_ENABLE_ANALYTICS"
      [] f = "email"          -> "NEXT_PUBLIC_ENABLE_EMAIL"
      [] f = "fileUpload"     -> "NEXT_PUBLIC_ENABLE_FILE_UPLOAD"
      [] f = "notifications"  -> "NEXT_PUBLIC_ENABLE_NOTIFICATIONS"

FeatureFallbackText(f) ==
    CASE f = "authentication" -> "No authentication required"
      [] f = "database"       -> "Using local storage"
      [] f = "payments"       -> "Payments disabled"
      [] f = "realtime"       -> "Real-time features disabled"
      [] f = "analytics"      -> "Analytics disabled"
      [] f = "email"          -> "Email features disabled"
      [] f = "fileUpload"     -> "File upload disabled"
      [] f = "notifications"  -> "Notifications disabled"

(* Variant of defaultFeatures: any non-empty value enables the feature. *)
defaultFeatures_AnyValue(e) ==
    [f \in Features |->
        [enabled  |-> Truthy(ProcessEnv(e, FeatureEnvVar(f))),
         required |-> FALSE,
         fallback |-> FeatureFallbackText(f)]]

defaultFeatures(e) ==
    [f \in Features |->
        [enabled  |-> ProcessEnv(e, FeatureEnvVar(f)) = Some("true"),
         required |-> FALSE,
         fallback |-> FeatureFallbackText(f)]]

defaultProviders(e) ==
    [supabase |->
        [enabled  |-> Truthy(ProcessEnv(e, "NEXT_PUBLIC_SUPABASE_URL"))
                        /\ Truthy(ProcessEnv(e, "NEXT_PUBLIC_SUPABASE_ANON_KEY")),
         required |-> FALSE,
         url      |-> ProcessEnv(e, "NEXT_PUBLIC_SUPABASE_URL"),
         anonKey  |-> ProcessEnv(e, "NEXT_PUBLIC_SUPABASE_ANON_KEY")],
     stripe |->
        [enabled  |-> Truthy(ProcessEnv(e, "NEXT_PUBLIC_STRIPE_PUBLISHABLE_KEY"))
                        /\ Truthy(ProcessEnv(e, "STRIPE_SECRET_KEY")),
         required |-> FALSE,
         publishableKey |-> ProcessEnv(e, "NEXT_PUBLIC_STRIPE_PUBLISHABLE_KEY"),
         secretKey      |-> ProcessEnv(e, "STRIPE_SECRET_KEY"),
         webhookSecret  |-> ProcessEnv(e, "STRIPE_WEBHOOK_SECRET")],
     auth0 |->
        [enabled  |-> Truthy(ProcessEnv(e, "AUTH0_DOMAIN"))
                        /\ Truthy(ProcessEnv(e, "AUTH0_CLIENT_ID")),
         required |-> FALSE,
         domain       |-> ProcessEnv(e, "AUTH0_DOMAIN"),
         clientId     |-> ProcessEnv(e, "AUTH0_CLIENT_ID"),
         clientSecret |-> ProcessEnv(e, "AUTH0_CLIENT_SECRET")],
     sendgrid |->
        [enabled  |-> Truthy(ProcessEnv(e, "SENDGRID_API_KEY")),
         required |-> FALSE,
         apiKey   |-> ProcessEnv(e, "SENDGRID_API_KEY")],
     aws |->
        [enabled  |-> Truthy(ProcessEnv(e, "AWS_ACCESS_KEY_ID"))
                        /\ Truthy(ProcessEnv(e, "AWS_SECRET_ACCESS_KEY")),
         required |-> FALSE,
         accessKeyId     |-> ProcessEnv(e, "AWS_ACCESS_KEY_ID"),
         secretAccessKey |-> ProcessEnv(e, "AWS_SECRET_ACCESS_KEY"),
         region          |-> Some(OrElse(ProcessEnv(e, "AWS_REGION"), "us-east-1"))]]

defaultUi(e) ==
    [theme            |-> OrElse(ProcessEnv(e, "NEXT_PUBLIC_THEME"), "system"),
     primaryColor     |-> OrElse(ProcessEnv(e, "NEXT_PUBLIC_PRIMARY_COLOR"), "#3b82f6"),
     showBranding     |-> ProcessEnv(e, "NEXT_PUBLIC_SHOW_BRANDING") # Some("false"),
     enableAnimations |-> ProcessEnv(e, "NEXT_PUBLIC_ENABLE_ANIMATIONS") # Some("false")]

defaultApp(e) ==
    [name         |-> OrElse(ProcessEnv(e, "NEXT_PUBLIC_APP_NAME"), "Xion Stack App"),
     description  |-> OrElse(ProcessEnv(e, "NEXT_PUBLIC_APP_DESCRIPTION"),
                             "Built with the bulletproof Xion Stack"),
     url          |-> OrElse(ProcessEnv(e, "NEXT_PUBLIC_APP_URL"), "http://localhost:3000"),
     supportEmail |-> OrElse(ProcessEnv(e, "NEXT_PUBLIC_SUPPORT_EMAIL"), "support@example.com")]

defaultConfig(e) ==
    [features  |-> defaultFeatures(e),
     providers |-> defaultProviders(e),
     ui        |-> defaultUi(e),
     app       |-> defaultApp(e)]

(* config.features[feature].enabled: an absent key reads as undefined, and  *)
(* reading .enabled of undefined throws a TypeError.                        *)
isFeatureEnabled(cfg, feature) ==
    IF feature \in DOMAIN cfg.features
    THEN Return(cfg.features[feature].enabled)
    ELSE Throw("TypeError", "Cannot read properties of undefined")

isProviderEnabled(cfg, provider) ==
    IF provider \in DOMAIN cfg.providers
    THEN Return(cfg.providers[provider].enabled)
    ELSE Throw("TypeError", "Cannot read properties of undefined")

getFeatureFallback(cfg, feature) ==
    IF feature \in DOMAIN cfg.features
    THEN Return(IF cfg.features[feature].fallback # ""
                THEN cfg.features[feature].fallback
                ELSE "Feature disabled")
    ELSE Throw("TypeError", "Cannot read properties of undefined")

(* config.providers[provider]: no property is read of the result, so an     *)
(* absent key is returned as undefined.                                     *)
getProviderConfig(cfg, provider) ==
    IF provider \in DOMAIN cfg.providers
    THEN Return(cfg.providers[provider])
    ELSE Return(Undefined)

RequiredFeatureError(f) == <<"Required", "feature", f, "is", "disabled">>

DatabaseDependencyError ==
    <<"Database", "feature", "enabled", "but", "Supabase", "provider", "not", "configured">>

PaymentsDependencyError ==
    <<"Payments", "feature", "enabled", "but", "Stripe", "provider", "not", "configured">>

EmailDependencyError ==
    <<"Email", "feature", "enabled", "but", "SendGrid", "provider", "not", "configured">>

(* Variant of validateConfig: the email rule looks at the Stripe provider. *)
validateConfig_EmailChecksStripe(cfg) ==
    LET Disabled(f) == cfg.features[f].required /\ ~cfg.features[f].enabled
        missing == SelectSeq(FeatureOrder, Disabled)
        required == [i \in 1..Len(missing) |-> RequiredFeatureError(missing[i])]
        database == IF cfg.features.database.enabled /\ ~cfg.providers.supabase.enabled
                    THEN <<DatabaseDependencyError>> ELSE <<>>
        payment  == IF cfg.features.payments.enabled /\ ~cfg.providers.stripe.enabled
                    THEN <<PaymentsDependencyError>> ELSE <<>>
        email    == IF cfg.features.email.enabled /\ ~cfg.providers.stripe.enabled
                    THEN <<EmailDependencyError>> ELSE <<>>
        errors   == required \o database \o payment \o email
    IN  [valid |-> Len(errors) = 0, errors |-> errors]

validateConfig(cfg) ==
    LET Disabled(f) == cfg.features[f].required /\ ~cfg.features[f].enabled
        missing == SelectSeq(FeatureOrder, Disabled)
        required == [i \in 1..Len(missing) |-> RequiredFeatureError(missing[i])]
        database == IF cfg.features.database.enabled /\ ~cfg.providers.supabase.enabled
                    THEN <<DatabaseDependencyError>> ELSE <<>>
        payment  == IF cfg.features.payments.enabled /\ ~cfg.providers.stripe.enabled
                    THEN <<PaymentsDependencyError>> ELSE <<>>
        email    == IF cfg.features.email.enabled /\ ~cfg.providers.sendgrid.enabled
                    THEN <<EmailDependencyError>> ELSE <<>>
        errors   == required \o database \o payment \o email
    IN  [valid |-> Len(errors) = 0, errors |-> errors]

Warning(text, detail) == [level |-> "warn", text |-> text, detail |-> detail]

(* The diagnostics checkRuntimeConfig writes with console.warn. *)
checkRuntimeConfigWarnings(cfg) ==
    IF ~validateConfig(cfg).valid
    THEN {Warning("Xion Stack Configuration Issues:", validateConfig(cfg).errors)}
    ELSE {}

checkRuntimeConfig(cfg) == validateConfig(cfg)

----------------------------------------------------------------------------
(* The environments a process is started in *)

FeatureEnvVars == {FeatureEnvVar(f) : f \in Features}

CredentialEnvVars ==
    {"NEXT_PUBLIC_SUPABASE_URL", "NEXT_PUBLIC_SUPABASE_ANON_KEY",
     "NEXT_PUBLIC_STRIPE_PUBLISHABLE_KEY", "STRIPE_SECRET_KEY", "STRIPE_WEBHOOK_SECRET",
     "AUTH0_DOMAIN", "AUTH0_CLIENT_ID", "AUTH0_CLIENT_SECRET",
     "SENDGRID_API_KEY",
     "AWS_ACCESS_KEY_ID", "AWS_SECRET_ACCESS_KEY", "AWS_REGION"}

DependencyEnvVars ==
    {FeatureEnvVar("database"), FeatureEnvVar("payments"), FeatureEnvVar("email"),
     "NEXT_PUBLIC_SUPABASE_URL", "NEXT_PUBLIC_SUPABASE_ANON_KEY",
     "NEXT_PUBLIC_STRIPE_PUBLISHABLE_KEY", "STRIPE_SECRET_KEY",
     "SENDGRID_API_KEY"}

EnvValues(k) ==
    IF k \in FeatureEnvVars THEN {"true", "TRUE", "1", ""} ELSE {"", "x"}

FeatureArgs == Features \cup {"billing"}

ProviderArgs == Providers \cup {"paypal"}

NoInstance == [kind |-> "none", client |-> FALSE]

(* No component is mounted. *)
(* signedIn is not state of the hook: it remembers the user with whom the    *)
(* last signIn or signUp of the hook resolved, until signOut or              *)
(* updateProfile is called.                                                 *)
NoHook == [mounted |-> FALSE, user |-> Null, loading |-> TRUE, pending |-> <<>>,
           signedIn |-> Null]

(* The state outside lib/config and the provider modules, before it is used. *)
InitApp == hook = NoHook /\ runtime = "server" /\ storage = <<>>

NoCall == [op |-> "", arg |-> "", out |-> Return(Undefined), logged |-> {}]

Call(op, arg, out) == [op |-> op, arg |-> arg, out |-> out, logged |-> {}]

CallLogging(op, arg, out, logged) == [op |-> op, arg |-> arg, out |-> out, logged |-> logged]

----------------------------------------------------------------------------
(* A process that imports lib/config only: the registry is built from the   *)
(* environment when the module is evaluated, and the helpers are called.    *)

InitConfig ==
    /\ env = <<>>
    /\ config = defaultConfig(env)
    /\ loaded = {"config"}
    /\ last = NoCall
    /\ diag = {}
    /\ authModule = "none"
    /\ auth = NoInstance
    /\ db = NoInstance
    /\ payments = NoInstance
    /\ users = <<>>
    /\ session = Null
    /\ InitApp

(* The process is started again with one more variable exported. *)
Relaunch(k, v) ==
    /\ Cardinality(DOMAIN env) < MaxEnvVars
    /\ k \notin DOMAIN env
    /\ env' = (k :> v) @@ env
    /\ config' = defaultConfig(env')
    /\ last' = NoCall
    /\ diag' = {}
    /\ UNCHANGED <<loaded, moduleVars, authVars, appVars>>

CallIsFeatureEnabled(name) ==
    /\ last' = Call("isFeatureEnabled", name, isFeatureEnabled(config, name))
    /\ UNCHANGED <<configVars, diag, moduleVars, authVars, appVars>>

CallIsProviderEnabled(name) ==
    /\ last' = Call("isProviderEnabled", name, isProviderEnabled(config, name))
    /\ UNCHANGED <<configVars, diag, moduleVars, authVars, appVars>>

CallGetFeatureFallback(name) ==
    /\ last' = Call("getFeatureFallback", name, getFeatureFallback(config, name))
    /\ UNCHANGED <<configVars, diag, moduleVars, authVars, appVars>>

CallGetProviderConfig(name) ==
    /\ last' = Call("getProviderConfig", name, getProviderConfig(config, name))
    /\ UNCHANGED <<configVars, diag, moduleVars, authVars, appVars>>

(* A validateConfig that throws when a rule is violated. *)
CallValidateConfig_ThrowsIfInvalid ==
    /\ last' = Call("validateConfig", "",
                    IF validateConfig(config).valid THEN Return(validateConfig(config))
                    ELSE Throw("Error", "Invalid configuration"))
    /\ UNCHANGED <<configVars, diag, moduleVars, authVars, appVars>>

(* A validateConfig that switches off the features whose provider is missing. *)
CallValidateConfig_DisablesUnmet ==
    /\ last' = Call("validateConfig", "", Return(validateConfig(config)))
    /\ config' = [config EXCEPT
                     !.features.database.enabled = @ /\ config.providers.supabase.enabled,
                     !.features.payments.enabled = @ /\ config.providers.stripe.enabled]
    /\ UNCHANGED <<env, loaded, diag, moduleVars, authVars, appVars>>

CallValidateConfig ==
    /\ last' = Call("validateConfig", "", Return(validateConfig(config)))
    /\ UNCHANGED <<configVars, diag, moduleVars, authVars, appVars>>

CallCheckRuntimeConfig ==
    /\ last' = CallLogging("checkRuntimeConfig", "", Return(checkRuntimeConfig(config)),
                            checkRuntimeConfigWarnings(config))
    /\ diag' = diag \cup checkRuntimeConfigWarnings(config)
    /\ UNCHANGED <<configVars, moduleVars, authVars, appVars>>

RelaunchOver(names) == \E k \in names : \E v \in EnvValues(k) : Relaunch(k, v)

(* Feature flags: the environment varies over the NEXT_PUBLIC_ENABLE_* variables. *)
NextFlags ==
    \/ RelaunchOver(FeatureEnvVars)
    \/ \E name \in FeatureArgs : CallIsFeatureEnabled(name)
    \/ \E name \in FeatureArgs : CallGetFeatureFallback(name)

SpecFlags == InitConfig /\ [][NextFlags]_vars

(* Provider credentials: the environment varies over the credential variables. *)
NextCredentials ==
    \/ RelaunchOver(CredentialEnvVars)
    \/ \E name \in ProviderArgs : CallIsProviderEnabled(name)
    \/ \E name \in ProviderArgs : CallGetProviderConfig(name)

SpecCredentials == InitConfig /\ [][NextCredentials]_vars

(* Validation: the environment varies over the variables validateConfig depends on. *)
NextValidate ==
    \/ RelaunchOver(DependencyEnvVars)
    \/ CallValidateConfig
    \/ CallCheckRuntimeConfig

SpecValidate == InitConfig /\ [][NextValidate]_vars

----------------------------------------------------------------------------
(* Properties of the registry and the capability predicates *)

EnvIs(k, v) == k \in DOMAIN env /\ env[k] = v

(* C1: for every environment and every feature f, isFeatureEnabled(f) returns *)
(* true exactly when f's NEXT_PUBLIC_ENABLE_* variable is the string "true";  *)
(* "TRUE", "1", the empty string and an unset variable all give false. The    *)
(* registry's enabled flag of every feature has the same value.               *)
FeatureEnabledIffExactlyTrue ==
    /\ \A f \in Features : config.features[f].enabled = EnvIs(FeatureEnvVar(f), "true")
    /\ (last.op = "isFeatureEnabled" /\ last.arg \in Features) =>
          /\ last.out.kind = "return"
          /\ last.out.value = EnvIs(FeatureEnvVar(last.arg), "true")

FeatureEnabledWitness ==
    /\ last.op = "isFeatureEnabled"
    /\ last.arg = "payments"
    /\ EnvIs(FeatureEnvVar("payments"), "TRUE")
    /\ last.out.value = FALSE
    /\ EnvIs(FeatureEnvVar("authentication"), "true")
    /\ config.features.authentication.enabled

(* The credential variables the specification lists for each provider. *)
ListedCredentials(p) ==
    CASE p = "supabase" -> {"NEXT_PUBLIC_SUPABASE_URL", "NEXT_PUBLIC_SUPABASE_ANON_KEY"}
      [] p = "stripe"   -> {"NEXT_PUBLIC_STRIPE_PUBLISHABLE_KEY", "STRIPE_SECRET_KEY",
                            "STRIPE_WEBHOOK_SECRET"}
      [] p = "auth0"    -> {"AUTH0_DOMAIN", "AUTH0_CLIENT_ID", "AUTH0_CLIENT_SECRET"}
      [] p = "sendgrid" -> {"SENDGRID_API_KEY"}
      [] p = "aws"      -> {"AWS_ACCESS_KEY_ID", "AWS_SECRET_ACCESS_KEY", "AWS_REGION"}

AllListedCredentials(e, p) == \A k \in ListedCredentials(p) : Truthy(ProcessEnv(e, k))

(* C2: for every environment and every provider p, isProviderEnabled(p) is    *)
(* true exactly when every credential listed for p is a non-empty string, so  *)
(* an environment lacking any one of them has p disabled.                     *)
ProviderEnabledIffAllCredentials ==
    (last.op = "isProviderEnabled" /\ last.arg \in Providers) =>
        /\ last.out.kind = "return"
        /\ last.out.value = AllListedCredentials(env, last.arg)

Count(seq, x) == Cardinality({i \in DOMAIN seq : seq[i] = x})

Mentions(words, w) == \E i \in DOMAIN words : words[i] = w

DependencyRules == {"database", "payments", "email"}

DependencyProvider(rule) ==
    CASE rule = "database" -> "supabase"
      [] rule = "payments" -> "stripe"
      [] rule = "email"    -> "sendgrid"

DependencyMessage(rule) ==
    CASE rule = "database" -> DatabaseDependencyError
      [] rule = "payments" -> PaymentsDependencyError
      [] rule = "email"    -> EmailDependencyError

DependencyViolated(cfg, rule) ==
    cfg.features[rule].enabled /\ ~cfg.providers[DependencyProvider(rule)].enabled

RequiredViolated(cfg, f) == cfg.features[f].required /\ ~cfg.features[f].enabled

ExpectedErrorCount(cfg) ==
    Cardinality({r \in DependencyRules : DependencyViolated(cfg, r)})
      + Cardinality({f \in Features : RequiredViolated(cfg, f)})

(* The result has one entry for each violated rule and no other entry. *)
OneErrorPerViolatedRule(cfg, r) ==
    /\ \A rule \in DependencyRules :
          Count(r.errors, DependencyMessage(rule))
             = IF DependencyViolated(cfg, rule) THEN 1 ELSE 0
    /\ \A f \in Features :
          Count(r.errors, RequiredFeatureError(f))
             = IF RequiredViolated(cfg, f) THEN 1 ELSE 0
    /\ Len(r.errors) = ExpectedErrorCount(cfg)
    /\ r.valid = (r.errors = <<>>)

PaymentsDisabled(cfg) == [cfg EXCEPT !.features.payments.enabled = FALSE]

MarkedRequired(cfg, f) == [cfg EXCEPT !.features[f].required = TRUE]

Without(seq, x) == SelectSeq(seq, LAMBDA y : y # x)

(* C3: validateConfig returns one error for each violated rule (a required    *)
(* feature disabled; database without supabase; payments without stripe;      *)
(* email without sendgrid) and none for a satisfied rule; valid holds exactly *)
(* when the list is empty; the payments error names Payments and Stripe; and  *)
(* the same configuration with payments disabled gives the same list without  *)
(* that entry. The required rule is checked on the registry with each feature *)
(* in turn marked required.                                                   *)
ValidateReportsEachViolatedRuleOnce ==
    last.op = "validateConfig" =>
        LET r == last.out.value IN
        /\ OneErrorPerViolatedRule(config, r)
        /\ \A f \in Features :
              OneErrorPerViolatedRule(MarkedRequired(config, f),
                                      validateConfig(MarkedRequired(config, f)))
        /\ DependencyViolated(config, "payments") =>
              \E i \in DOMAIN r.errors :
                  /\ Mentions(r.errors[i], "Payments")
                  /\ Mentions(r.errors[i], "Stripe")
                  /\ validateConfig(PaymentsDisabled(config)).errors
                        = Without(r.errors, r.errors[i])
        /\ ~DependencyViolated(config, "payments") =>
              validateConfig(PaymentsDisabled(config)).errors = r.errors

ValidateWitness ==
    /\ last.op = "validateConfig"
    /\ DependencyViolated(config, "payments")
    /\ config.features.email.enabled
    /\ config.providers.sendgrid.enabled
    /\ last.out.value.errors = <<PaymentsDependencyError>>
    /\ ~last.out.value.valid

KnownNames(op) ==
    IF op \in {"isFeatureEnabled", "getFeatureFallback"} THEN Features ELSE Providers

(* C4: isFeatureEnabled, isProviderEnabled, getFeatureFallback and            *)
(* getProviderConfig fail with an UnknownCapability error for a name outside  *)
(* the feature or provider names, and return nothing for it.                  *)
UnknownNameFailsWithUnknownCapability ==
    ( /\ last.op \in {"isFeatureEnabled", "isProviderEnabled",
                      "getFeatureFallback", "getProviderConfig"}
      /\ last.arg \notin KnownNames(last.op) ) =>
        /\ last.out.kind = "throw"
        /\ last.out.error = "UnknownCapability"

----------------------------------------------------------------------------
(* lib/auth.ts *)

(* email.split('@')[0] *)
LocalPart(email) ==
    IF \E i \in DOMAIN email : email[i] = "@"
    THEN LET at == CHOOSE i \in DOMAIN email :
                      email[i] = "@" /\ \A j \in 1..(i - 1) : email[j] # "@"
         IN  SubSeq(email, 1, at - 1)
    ELSE email

(* Truthiness of an optional email or name. *)
TruthyText(v) == v # Undefined /\ v[1] # <<>>

(* The user object of the hosted auth service for an account. *)
HostedUser(email, name) ==
    [id |-> <<"uuid-", Len(email)>>, email |-> email,
     user_metadata |-> [name |-> name, avatar_url |-> Undefined, role |-> Undefined]]

transformUser(user) ==
    [id       |-> user.id,
     email    |-> user.email,
     name     |-> IF TruthyText(user.user_metadata.name)
                  THEN user.user_metadata.name[1]
                  ELSE LocalPart(user.email),
     avatar   |-> user.user_metadata.avatar_url,
     role     |-> OrElse(user.user_metadata.role, "user"),
     metadata |-> user.user_metadata]

(* What a call leaves behind: its outcome, the mock's map, the hosted session. *)
AuthResult(out, us, sess) == [out |-> out, users |-> us, session |-> sess]

(* lib/supabase: the exported client, there when the credentials are. *)
supabase(cfg) == cfg.providers.supabase.enabled

(* new SupabaseAuthProvider(): this.supabase is set only if the provider is enabled. *)
NewSupabaseAuthProvider(cfg) ==
    [kind |-> "SupabaseAuthProvider",
     client |-> isProviderEnabled(cfg, "supabase").value /\ supabase(cfg)]

(* up: whether the hosted service accepts the request. *)
SupabaseAuthProvider(self, op, a, us, sess, up) ==
    CASE op = "signIn" ->
            IF ~self.client THEN AuthResult(Return(Null), us, sess)
            ELSE IF ~up THEN AuthResult(Throw("AuthApiError", "Invalid login credentials"), us, sess)
            ELSE AuthResult(Return(transformUser(HostedUser(a.email, Undefined))),
                            us, HostedUser(a.email, Undefined))
      [] op = "signUp" ->
            IF ~self.client THEN AuthResult(Return(Null), us, sess)
            ELSE IF ~up THEN AuthResult(Throw("AuthApiError", "User already registered"), us, sess)
            ELSE AuthResult(Return(transformUser(HostedUser(a.email, a.name))),
                            us, HostedUser(a.email, a.name))
      [] op = "signOut" ->
            \* the answer of the service is not read; the client drops its session
            IF ~self.client THEN AuthResult(Return(Undefined), us, sess)
            ELSE AuthResult(Return(Undefined), us, Null)
      [] op = "getCurrentUser" ->
            IF ~self.client THEN AuthResult(Return(Null), us, sess)
            ELSE IF up /\ sess # Null THEN AuthResult(Return(transformUser(sess)), us, sess)
            ELSE AuthResult(Return(Null), us, sess)
      [] op = "resetPassword" ->
            AuthResult(Return(Undefined), us, sess)
      [] op = "updateProfile" ->
            IF ~self.client THEN AuthResult(Return(Null), us, sess)
            ELSE IF ~up \/ sess = Null
                 THEN AuthResult(Throw("AuthApiError", "Auth session missing"), us, sess)
            ELSE LET updated == [sess EXCEPT !.user_metadata.name = a.name]
                 IN  AuthResult(Return(transformUser(updated)), us, updated)

(* new Auth0Provider(): this.auth0 is set only if the provider is enabled. *)
NewAuth0Provider(cfg) ==
    [kind |-> "Auth0Provider", client |-> isProviderEnabled(cfg, "auth0").value]

Auth0Provider(self, op, a, us, sess) ==
    CASE op = "signIn" ->
            AuthResult(Throw("Error", "Auth0 sign-in handled through hosted login page"), us, sess)
      [] op = "signUp" ->
            AuthResult(Throw("Error", "Auth0 sign-up handled through hosted login page"), us, sess)
      [] op = "signOut"        -> AuthResult(Return(Undefined), us, sess)
      [] op = "getCurrentUser" -> AuthResult(Return(Null), us, sess)
      [] op = "resetPassword"  -> AuthResult(Return(Undefined), us, sess)
      [] op = "updateProfile"  -> AuthResult(Return(Null), us, sess)

NewMockAuthProvider == [kind |-> "MockAuthProvider", client |-> FALSE]

(* Map.set: a present key keeps its place and takes the new value. *)
MapSet(us, user) ==
    IF \E i \in DOMAIN us : us[i].email = user.email
    THEN [i \in DOMAIN us |-> IF us[i].email = user.email THEN user ELSE us[i]]
    ELSE Append(us, user)

(* A mock whose signIn names the user by the whole email. *)
MockAuthProvider_NameIsEmail(op, a, us, sess, now) ==
    CASE op = "signIn" ->
            LET user == [id |-> <<"mock-user-", 1>>, email |-> a.email,
                         name |-> a.email, role |-> "user"]
            IN  AuthResult(Return(user), MapSet(us, user), sess)
      [] op = "signUp" ->
            LET user == [id |-> <<"mock-user-", now>>, email |-> a.email,
                         name |-> IF TruthyText(a.name) THEN a.name[1] ELSE LocalPart(a.email),
                         role |-> "user"]
            IN  AuthResult(Return(user), MapSet(us, user), sess)
      [] op = "signOut"        -> AuthResult(Return(Undefined), us, sess)
      [] op = "getCurrentUser" ->
            AuthResult(Return(IF us # <<>> THEN us[1] ELSE Null), us, sess)
      [] op = "resetPassword"  -> AuthResult(Return(Undefined), us, sess)
      [] op = "updateProfile"  -> AuthResult(Return(Null), us, sess)

(* now: the value of Date.now() *)
MockAuthProvider(op, a, us, sess, now) ==
    CASE op = "signIn" ->
            LET user == [id |-> <<"mock-user-", 1>>, email |-> a.email,
                         name |-> LocalPart(a.email), role |-> "user"]
            IN  AuthResult(Return(user), MapSet(us, user), sess)
      [] op = "signUp" ->
            LET user == [id |-> <<"mock-user-", now>>, email |-> a.email,
                         name |-> IF TruthyText(a.name) THEN a.name[1] ELSE LocalPart(a.email),
                         role |-> "user"]
            IN  AuthResult(Return(user), MapSet(us, user), sess)
      [] op = "signOut"        -> AuthResult(Return(Undefined), us, sess)
      [] op = "getCurrentUser" ->
            AuthResult(Return(IF us # <<>> THEN us[1] ELSE Null), us, sess)
      [] op = "resetPassword"  -> AuthResult(Return(Undefined), us, sess)
      [] op = "updateProfile"  -> AuthResult(Return(Null), us, sess)

NewNoAuthProvider == [kind |-> "NoAuthProvider", client |-> FALSE]

(* A disabled provider whose resetPassword does nothing, as its signOut. *)
NoAuthProvider_ResetDoesNothing(op, us, sess) ==
    CASE op = "signIn"         -> AuthResult(Throw("Error", "Authentication is disabled"), us, sess)
      [] op = "signUp"         -> AuthResult(Throw("Error", "Authentication is disabled"), us, sess)
      [] op = "signOut"        -> AuthResult(Return(Undefined), us, sess)
      [] op = "getCurrentUser" -> AuthResult(Return(Null), us, sess)
      [] op = "resetPassword"  -> AuthResult(Return(Undefined), us, sess)
      [] op = "updateProfile"  -> AuthResult(Throw("Error", "Authentication is disabled"), us, sess)

NoAuthProvider(op, us, sess) ==
    CASE op = "signIn"         -> AuthResult(Throw("Error", "Authentication is disabled"), us, sess)
      [] op = "signUp"         -> AuthResult(Throw("Error", "Authentication is disabled"), us, sess)
      [] op = "signOut"        -> AuthResult(Return(Undefined), us, sess)
      [] op = "getCurrentUser" -> AuthResult(Return(Null), us, sess)
      [] op = "resetPassword"  -> AuthResult(Throw("Error", "Authentication is disabled"), us, sess)
      [] op = "updateProfile"  -> AuthResult(Throw("Error", "Authentication is disabled"), us, sess)

(* What a factory call leaves behind: its outcome and what it wrote to the console. *)
Made(self) == [out |-> Return(self), logged |-> {}]

(* The first definition of the factory. *)
getAuthProvider(cfg, e) ==
    IF ~isFeatureEnabled(cfg, "authentication").value THEN Made(NewNoAuthProvider)
    ELSE IF isProviderEnabled(cfg, "supabase").value THEN Made(NewSupabaseAuthProvider(cfg))
    ELSE IF isProviderEnabled(cfg, "auth0").value THEN Made(NewAuth0Provider(cfg))
    ELSE IF ProcessEnv(e, "NODE_ENV") = Some("development") THEN Made(NewMockAuthProvider)
    ELSE Made(NewNoAuthProvider)

(* The second definition of the factory, which knows no Auth0 provider. *)
getAuthProviderSecond(cfg, e) ==
    IF ~isFeatureEnabled(cfg, "authentication").value THEN Made(NewNoAuthProvider)
    ELSE IF isProviderEnabled(cfg, "supabase").value THEN Made(NewSupabaseAuthProvider(cfg))
    ELSE IF ProcessEnv(e, "NODE_ENV") = Some("development") THEN Made(NewMockAuthProvider)
    ELSE Made(NewNoAuthProvider)

AuthModules == {"first", "second"}

AuthFactory(which, cfg, e) ==
    IF which = "second" THEN getAuthProviderSecond(cfg, e) ELSE getAuthProvider(cfg, e)

AuthOps == {"signIn", "signUp", "signOut", "getCurrentUser", "resetPassword", "updateProfile"}

(* A call of an operation of a provider instance, dispatched on its class. *)
AuthProviderCall(self, op, a, us, sess, up, now) ==
    CASE self.kind = "SupabaseAuthProvider" -> SupabaseAuthProvider(self, op, a, us, sess, up)
      [] self.kind = "Auth0Provider"        -> Auth0Provider(self, op, a, us, sess)
      [] self.kind = "MockAuthProvider"     -> MockAuthProvider(op, a, us, sess, now)
      [] self.kind = "NoAuthProvider"       -> NoAuthProvider(op, us, sess)

----------------------------------------------------------------------------
(* lib/database.ts *)

NewSupabaseDatabaseProvider(cfg) ==
    [kind |-> "SupabaseDatabaseProvider", client |-> supabase(cfg)]

(* The row the hosted database answers with. *)
HostedRow(a) == [id |-> a.id, table |-> a.table]

(* up: the hosted database's answer: "ok", "error", or "none" when no row matches. *)
SupabaseDatabaseProvider(self, op, a, up) ==
    IF ~self.client THEN Throw("Error", "Supabase not configured")
    ELSE CASE op = "query" ->
                 IF up = "error" THEN Throw("PostgrestError", "upstream")
                 ELSE IF up = "none" THEN Return(<<>>) ELSE Return(<<HostedRow(a)>>)
           [] op = "insert" ->
                 IF up = "ok" THEN Return(HostedRow(a)) ELSE Throw("PostgrestError", "upstream")
           [] op = "update" ->
                 IF up = "ok" THEN Return(HostedRow(a)) ELSE Throw("PostgrestError", "upstream")
           [] op = "delete" ->
                 IF up = "error" THEN Throw("PostgrestError", "upstream") ELSE Return(Undefined)
           [] op = "findById" ->
                 IF up = "error" THEN Throw("PostgrestError", "upstream")
                 ELSE IF up = "none" THEN Return(Null) ELSE Return(HostedRow(a))
           [] op = "findMany" ->
                 IF up = "error" THEN Throw("PostgrestError", "upstream")
                 ELSE IF up = "none" THEN Return(<<>>) ELSE Return(<<HostedRow(a)>>)

(* A record is a function from its keys to optional strings. *)
(* seq without its i-th element *)
Remove(seq, i) == SubSeq(seq, 1, i - 1) \o SubSeq(seq, i + 1, Len(seq))

Field(rec, k) == IF k \in DOMAIN rec THEN rec[k] ELSE Undefined

(* {...a, ...b} *)
Spread(a, b) == [k \in DOMAIN a \cup DOMAIN b |-> IF k \in DOMAIN b THEN b[k] ELSE a[k]]

(* JSON.parse(JSON.stringify(rec)): a key whose value is undefined is dropped. *)
JsonRecord(rec) == [k \in {j \in DOMAIN rec : rec[j] # Undefined} |-> rec[k]]

JsonRows(rows) == [i \in DOMAIN rows |-> JsonRecord(rows[i])]

(* new Date(now).toISOString() *)
IsoString(now) == "T" \o ToString(now)

(* The storage of the provider reads null and ignores writes outside a browser. *)
getTableData(st, rt, table) ==
    IF rt = "browser" /\ table \in DOMAIN st THEN st[table] ELSE <<>>

setTableData(st, rt, table, rows) ==
    IF rt = "browser" THEN (table :> JsonRows(rows)) @@ st ELSE st

Matches(item, filters) == \A k \in DOMAIN filters : Field(item, k) = filters[k]

Select(rows, Keep(_)) ==
    LET F[i \in 0..Len(rows)] ==
            IF i = 0 THEN <<>>
            ELSE IF Keep(rows[i]) THEN Append(F[i - 1], rows[i]) ELSE F[i - 1]
    IN  F[Len(rows)]

LocalResult(out, st, logged) == [out |-> out, storage |-> st, logged |-> logged]

(* An update that takes the record out of the table and adds it at the end. *)
update_MovesToEnd(a, st, rt, now) ==
    LET tableData == getTableData(st, rt, a.table) IN
    IF \A i \in DOMAIN tableData : Field(tableData[i], "id") # a.id
    THEN LocalResult(Throw("Error", "Record with id " \o a.id[1] \o " not found"), st, {})
    ELSE LET index == CHOOSE i \in DOMAIN tableData :
                         /\ Field(tableData[i], "id") = a.id
                         /\ \A j \in 1..(i - 1) : Field(tableData[j], "id") # a.id
             item == Spread(Spread(tableData[index], a.data),
                            [updated_at |-> Some(IsoString(now))])
         IN  LocalResult(Return(item),
                         setTableData(st, rt, a.table,
                                      Append(Remove(tableData, index), item)), {})

(* update(table, id, data) of the local storage provider *)
update(a, st, rt, now) ==
    LET tableData == getTableData(st, rt, a.table) IN
    IF \A i \in DOMAIN tableData : Field(tableData[i], "id") # a.id
    THEN LocalResult(Throw("Error", "Record with id " \o a.id[1] \o " not found"), st, {})
    ELSE LET index == CHOOSE i \in DOMAIN tableData :
                         /\ Field(tableData[i], "id") = a.id
                         /\ \A j \in 1..(i - 1) : Field(tableData[j], "id") # a.id
             item == Spread(Spread(tableData[index], a.data),
                            [updated_at |-> Some(IsoString(now))])
         IN  LocalResult(Return(item),
                         setTableData(st, rt, a.table,
                                      [tableData EXCEPT ![index] = item]), {})

(* now: Date.now(); rnd: Math.random().toString(36).substr(2, 9) *)
LocalStorageDatabaseProvider(op, a, st, rt, now, rnd) ==
    LET tableData == getTableData(st, rt, a.table) IN
    CASE op = "query" ->
            LocalResult(Return(<<>>), st,
                        {Warning("Local storage does not support SQL queries", <<>>)})
      [] op = "insert" ->
            LET newItem == Spread(Spread([id |-> Some("local_" \o ToString(now) \o "_" \o rnd)],
                                         a.data),
                                  [created_at |-> Some(IsoString(now)),
                                   updated_at |-> Some(IsoString(now))])
            IN  LocalResult(Return(newItem),
                            setTableData(st, rt, a.table, Append(tableData, newItem)), {})
      [] op = "update" -> update(a, st, rt, now)
      [] op = "delete" ->
            LET Other(item) == Field(item, "id") # a.id
            IN  LocalResult(Return(Undefined),
                            setTableData(st, rt, a.table, Select(tableData, Other)), {})
      [] op = "findById" ->
            LET Same(item) == Field(item, "id") = a.id
                found == Select(tableData, Same)
            IN  LocalResult(Return(IF found # <<>> THEN found[1] ELSE Null), st, {})
      [] op = "findMany" ->
            LET Wanted(item) == Matches(item, a.filters)
            IN  LocalResult(Return(Select(tableData, Wanted)), st, {})

NewLocalStorageDatabaseProvider == [kind |-> "LocalStorageDatabaseProvider", client |-> FALSE]

NewNoDatabaseProvider == [kind |-> "NoDatabaseProvider", client |-> FALSE]

NoDatabaseProvider(op) == Throw("Error", "Database is disabled")

(* A factory that falls to the disabled provider where the database is required. *)
getDatabaseProvider_FallsToDisabled(cfg, e) ==
    IF ~isFeatureEnabled(cfg, "database").value THEN Made(NewNoDatabaseProvider)
    ELSE IF isProviderEnabled(cfg, "supabase").value THEN Made(NewSupabaseDatabaseProvider(cfg))
    ELSE IF ProcessEnv(e, "NODE_ENV") = Some("development")
         THEN [out    |-> Return(NewLocalStorageDatabaseProvider),
               logged |-> {Warning("Supabase not configured, using local storage fallback", <<>>)}]
    ELSE Made(NewNoDatabaseProvider)

getDatabaseProvider(cfg, e) ==
    IF ~isFeatureEnabled(cfg, "database").value THEN Made(NewNoDatabaseProvider)
    ELSE IF isProviderEnabled(cfg, "supabase").value THEN Made(NewSupabaseDatabaseProvider(cfg))
    ELSE IF ProcessEnv(e, "NODE_ENV") = Some("development")
         THEN [out    |-> Return(NewLocalStorageDatabaseProvider),
               logged |-> {Warning("Supabase not configured, using local storage fallback", <<>>)}]
    ELSE [out |-> Throw("Error", "Supabase is required for database functionality"),
          logged |-> {}]

DbOps == {"query", "insert", "update", "delete", "findById", "findMany"}

----------------------------------------------------------------------------
(* lib/payments.ts *)

(* lib/stripe: the exported client, built from STRIPE_SECRET_KEY. *)
stripe(e) == Truthy(ProcessEnv(e, "STRIPE_SECRET_KEY"))

NewStripePaymentProvider(cfg, e) ==
    [kind |-> "StripePaymentProvider",
     client |-> isProviderEnabled(cfg, "stripe").value /\ stripe(e)]

(* up: whether the hosted payment service accepts the request. *)
StripePaymentProvider(self, op, a, up) ==
    IF ~self.client THEN Throw("Error", "Stripe not configured")
    ELSE CASE op = "createCheckoutSession" ->
                 IF up THEN Return([id |-> <<"cs_", 1>>, url |-> "https://checkout.stripe.com",
                                    status |-> "open"])
                 ELSE Throw("StripeError", "upstream")
           [] op = "createSubscription" ->
                 IF up THEN Return([id |-> <<"sub_", 1>>, status |-> "incomplete",
                                    cancelAtPeriodEnd |-> FALSE])
                 ELSE Throw("StripeError", "upstream")
           [] op = "cancelSubscription" ->
                 IF up THEN Return(Undefined) ELSE Throw("StripeError", "upstream")
           [] op = "getCustomer" ->
                 IF up THEN Return([id |-> a.customerId, email |-> a.email, name |-> a.name])
                 ELSE Return(Null)
           [] op = "createCustomer" ->
                 IF up THEN Return([id |-> "cus_1", email |-> a.email, name |-> a.name])
                 ELSE Throw("StripeError", "upstream")
           [] op = "getPaymentMethods" ->
                 IF up THEN Return(<<>>) ELSE Throw("StripeError", "upstream")

NewMockPaymentProvider == [kind |-> "MockPaymentProvider", client |-> FALSE]

MockCustomerName == <<"Mock Customer">>

MockPaymentProvider(op, a, now) ==
    CASE op = "createCheckoutSession" ->
            Return([id |-> <<"mock_session_", now>>, url |-> a.successUrl, status |-> "complete"])
      [] op = "createSubscription" ->
            Return([id |-> <<"mock_sub_", now>>, status |-> "active", cancelAtPeriodEnd |-> FALSE])
      [] op = "cancelSubscription" -> Return(Undefined)
      [] op = "getCustomer" ->
            Return([id |-> a.customerId, email |-> <<"mock", "@", "example.com">>, name |-> Some(MockCustomerName)])
      [] op = "createCustomer" ->
            Return([id |-> <<"mock_customer_", now>>, email |-> a.email,
                    name |-> IF TruthyText(a.name) THEN a.name ELSE Some(MockCustomerName)])
      [] op = "getPaymentMethods" ->
            Return(<<[id |-> "mock_pm_1", type |-> "card"]>>)

NewNoPaymentProvider == [kind |-> "NoPaymentProvider", client |-> FALSE]

NoPaymentProvider(op) == Throw("Error", "Payments are disabled")

getPaymentProvider(cfg, e) ==
    IF ~isFeatureEnabled(cfg, "payments").value THEN Made(NewNoPaymentProvider)
    ELSE IF isProviderEnabled(cfg, "stripe").value THEN Made(NewStripePaymentProvider(cfg, e))
    ELSE IF ProcessEnv(e, "NODE_ENV") = Some("development") THEN Made(NewMockPaymentProvider)
    ELSE Made(NewNoPaymentProvider)

PaymentOps ==
    {"createCheckoutSession", "createSubscription", "cancelSubscription",
     "getCustomer", "createCustomer", "getPaymentMethods"}

----------------------------------------------------------------------------
(* A process with the provider modules: each module is evaluated when it is *)
(* first imported, which builds its exported instance with the factory, and *)
(* the operations of the instances are called.                              *)

RunFeatures == {"authentication", "database", "payments"}

Modes == {"development", "production", "test"}

FlagsEnv(fs) == [k \in {FeatureEnvVar(f) : f \in fs} |-> "true"]

CredentialsEnv(ks) == [k \in ks |-> "x"]

SupabaseCredentials == {{}, {"NEXT_PUBLIC_SUPABASE_URL", "NEXT_PUBLIC_SUPABASE_ANON_KEY"}}

Auth0Credentials ==
    {{}, {"AUTH0_DOMAIN", "AUTH0_CLIENT_ID"},
     {"AUTH0_DOMAIN", "AUTH0_CLIENT_ID", "AUTH0_CLIENT_SECRET"}}

StripeCredentials ==
    {{}, {"NEXT_PUBLIC_STRIPE_PUBLISHABLE_KEY", "STRIPE_SECRET_KEY"}}

RunEnvs ==
    {FlagsEnv(fs) @@ CredentialsEnv(su \cup a0 \cup st) @@ [k \in {"NODE_ENV"} |-> m] :
        fs \in SUBSET RunFeatures, su \in SupabaseCredentials, a0 \in Auth0Credentials,
        st \in StripeCredentials, m \in Modes}

Emails == {<<"a", "@", "b.com">>, <<"nobody">>}

Names == {Undefined, Some(<<"Ann">>)}

Times == 1..MaxTime

AuthArgs == [email : Emails, name : Names]

DbArgs == [table : {"products"}, id : {"1"}]

PaymentArgs ==
    [successUrl : {"https://ok"}, customerId : {"cus_1"}, email : {<<"a", "@", "b.com">>},
     name : Names]

(* The process before any provider module is imported. *)
InitFactories ==
    /\ env \in RunEnvs
    /\ config = defaultConfig(env)
    /\ loaded = {"config"}
    /\ last = NoCall
    /\ diag = {}
    /\ authModule \in AuthModules
    /\ auth = NoInstance
    /\ db = NoInstance
    /\ payments = NoInstance
    /\ users = <<>>
    /\ session = Null
    /\ InitApp

(* import of lib/auth: export const auth = getAuthProvider() *)
ImportAuth ==
    /\ "auth" \notin loaded
    /\ LET made == AuthFactory(authModule, config, env) IN
        /\ auth' = made.out.value
        /\ last' = CallLogging("getAuthProvider", "", made.out, made.logged)
        /\ diag' = diag \cup made.logged
    /\ loaded' = loaded \cup {"auth"}
    /\ UNCHANGED <<env, config, authModule, db, payments, authVars, appVars>>

(* import of lib/database: export const db = getDatabaseProvider(); when the *)
(* factory throws, the evaluation of the module fails.                       *)
ImportDatabase ==
    /\ "database" \notin loaded
    /\ LET made == getDatabaseProvider(config, env) IN
        /\ last' = CallLogging("getDatabaseProvider", "", made.out, made.logged)
        /\ diag' = diag \cup made.logged
        /\ IF made.out.kind = "return"
           THEN db' = made.out.value /\ loaded' = loaded \cup {"database"}
           ELSE UNCHANGED <<db, loaded>>
    /\ UNCHANGED <<env, config, authModule, auth, payments, authVars, appVars>>

(* import of lib/payments: export const payments = getPaymentProvider() *)
ImportPayments ==
    /\ "payments" \notin loaded
    /\ LET made == getPaymentProvider(config, env) IN
        /\ payments' = made.out.value
        /\ last' = CallLogging("getPaymentProvider", "", made.out, made.logged)
        /\ diag' = diag \cup made.logged
    /\ loaded' = loaded \cup {"payments"}
    /\ UNCHANGED <<env, config, authModule, auth, db, authVars, appVars>>

(* A later call of an exported factory: the instance it makes is the caller's. *)
CallGetAuthProvider ==
    /\ "auth" \in loaded
    /\ LET made == AuthFactory(authModule, config, env) IN
        /\ last' = CallLogging("getAuthProvider", "", made.out, made.logged)
        /\ diag' = diag \cup made.logged
    /\ UNCHANGED <<configVars, moduleVars, authVars, appVars>>

CallGetDatabaseProvider ==
    /\ "database" \in loaded
    /\ LET made == getDatabaseProvider(config, env) IN
        /\ last' = CallLogging("getDatabaseProvider", "", made.out, made.logged)
        /\ diag' = diag \cup made.logged
    /\ UNCHANGED <<configVars, moduleVars, authVars, appVars>>

CallGetPaymentProvider ==
    /\ "payments" \in loaded
    /\ LET made == getPaymentProvider(config, env) IN
        /\ last' = CallLogging("getPaymentProvider", "", made.out, made.logged)
        /\ diag' = diag \cup made.logged
    /\ UNCHANGED <<configVars, moduleVars, authVars, appVars>>

(* auth.<op>(...) *)
AuthCall(op, a, up, now) ==
    /\ "auth" \in loaded
    /\ LET r == AuthProviderCall(auth, op, a, users, session, up, now) IN
        /\ last' = Call(op, a, r.out)
        /\ users' = r.users
        /\ session' = r.session
    /\ UNCHANGED <<configVars, moduleVars, diag, appVars>>

DatabaseProviderCall(self, op, a, up) ==
    CASE self.kind = "SupabaseDatabaseProvider" -> SupabaseDatabaseProvider(self, op, a, up)
      [] self.kind = "NoDatabaseProvider"       -> NoDatabaseProvider(op)

(* db.<op>(...) on the hosted or the disabled provider *)
DbCall(op, a, up) ==
    /\ "database" \in loaded
    /\ db.kind \in {"SupabaseDatabaseProvider", "NoDatabaseProvider"}
    /\ last' = Call(op, a, DatabaseProviderCall(db, op, a, up))
    /\ UNCHANGED <<configVars, moduleVars, diag, authVars, appVars>>

PaymentProviderCall(self, op, a, up, now) ==
    CASE self.kind = "StripePaymentProvider" -> StripePaymentProvider(self, op, a, up)
      [] self.kind = "MockPaymentProvider"   -> MockPaymentProvider(op, a, now)
      [] self.kind = "NoPaymentProvider"     -> NoPaymentProvider(op)

(* payments.<op>(...) *)
PaymentCall(op, a, up, now) ==
    /\ "payments" \in loaded
    /\ last' = Call(op, a, PaymentProviderCall(payments, op, a, up, now))
    /\ UNCHANGED <<configVars, moduleVars, diag, authVars, appVars>>

NextFactories ==
    \/ ImportAuth
    \/ ImportDatabase
    \/ ImportPayments
    \/ CallGetAuthProvider
    \/ CallGetDatabaseProvider
    \/ CallGetPaymentProvider

SpecFactories == InitFactories /\ [][NextFactories]_vars

(* The process once the three provider modules have been imported: lib/database *)
(* is not loaded when its factory threw.                                        *)
InitLoaded(envs) ==
    /\ env \in envs
    /\ config = defaultConfig(env)
    /\ authModule \in AuthModules
    /\ auth = AuthFactory(authModule, config, env).out.value
    /\ LET made == getDatabaseProvider(config, env) IN
        /\ db = IF made.out.kind = "return" THEN made.out.value ELSE NoInstance
        /\ loaded = {"config", "auth", "payments"}
                        \cup IF made.out.kind = "return" THEN {"database"} ELSE {}
        /\ diag = made.logged
    /\ payments = getPaymentProvider(config, env).out.value
    /\ last = NoCall
    /\ users = <<>>
    /\ session = Null

Init == InitLoaded(RunEnvs) /\ InitApp

(* The arguments an operation reads; the others are left at one value. *)
AuthArgsOf(op) ==
    CASE op \in {"signIn", "resetPassword"} -> {a \in AuthArgs : a.name = Undefined}
      [] op = "signUp"                      -> AuthArgs
      [] op = "updateProfile"               -> {a \in AuthArgs : a.email = <<"nobody">>}
      [] OTHER -> {a \in AuthArgs : a.email = <<"nobody">> /\ a.name = Undefined}

PaymentArgsOf(op) ==
    IF op = "createCustomer" THEN PaymentArgs ELSE {a \in PaymentArgs : a.name = Undefined}

(* The hosted service answers only a provider that holds a client, and only *)
(* the mock providers read the clock.                                        *)
AnswersTo(self) == IF self.client THEN BOOLEAN ELSE {TRUE}

DbAnswersTo(self) == IF self.client THEN {"ok", "error", "none"} ELSE {"ok"}

ClockOf(self) ==
    IF self.kind \in {"MockAuthProvider", "MockPaymentProvider"} THEN Times ELSE {1}

Next ==
    \/ \E op \in AuthOps : \E a \in AuthArgsOf(op), up \in AnswersTo(auth), now \in ClockOf(auth) :
          AuthCall(op, a, up, now)
    \/ \E op \in DbOps, a \in DbArgs, up \in DbAnswersTo(db) : DbCall(op, a, up)
    \/ \E op \in PaymentOps :
          \E a \in PaymentArgsOf(op), up \in AnswersTo(payments), now \in ClockOf(payments) :
             PaymentCall(op, a, up, now)

Spec == Init /\ [][Next]_vars

----------------------------------------------------------------------------
(* lib/auth.ts: useAuth, in one mounted component; the calls the hook makes *)
(* are kept in hook.pending, and last holds the calls made of auth itself.  *)

HookOps == {"signIn", "signUp", "signOut", "updateProfile"}

NoArgs == [email |-> <<"nobody">>, name |-> Undefined]

(* Whether the promise of an operation is settled by the hosted service; that *)
(* of the other providers is settled before any other event is handled.      *)
AwaitsService(self) == self.kind = "SupabaseAuthProvider" /\ self.client

(* No promise is waiting that is settled before the next event. *)
EventLoopIdle == \A i \in DOMAIN hook.pending : ~hook.pending[i].micro

(* useState(null), useState(true) and the effect of the first render *)
Mount(up) ==
    /\ ~hook.mounted
    /\ IF ~isFeatureEnabled(config, "authentication").value
       THEN /\ hook' = [mounted |-> TRUE, user |-> Null, loading |-> FALSE, pending |-> <<>>,
                        signedIn |-> Null]
            /\ UNCHANGED <<last, authVars>>
       ELSE LET r == AuthProviderCall(auth, "getCurrentUser", NoArgs, users, session, up, 1) IN
            /\ hook' = [mounted |-> TRUE, user |-> Null, loading |-> TRUE,
                        pending |-> <<[op |-> "mount", out |-> r.out,
                                       micro |-> ~AwaitsService(auth)]>>,
                        signedIn |-> Null]
            /\ users' = r.users
            /\ session' = r.session
            /\ UNCHANGED last
    /\ UNCHANGED <<configVars, moduleVars, diag, runtime, storage>>

(* signIn, signUp, signOut, updateProfile of the hook, up to their await *)
HookCall(op, a, up, now) ==
    /\ hook.mounted
    /\ EventLoopIdle
    /\ Len(hook.pending) < MaxPending
    /\ LET r == AuthProviderCall(auth, op, a, users, session, up, now) IN
        /\ users' = r.users
        /\ session' = r.session
        /\ hook' = [hook EXCEPT !.pending =
                        Append(@, [op |-> op, out |-> r.out, micro |-> ~AwaitsService(auth)]),
                                 !.signedIn =
                        IF op \in {"signOut", "updateProfile"} THEN Null ELSE @]
    /\ UNCHANGED <<configVars, moduleVars, diag, last, runtime, storage>>

(* A hook that signs the user out when an operation fails. *)
Resumed_FailureClearsUser(h, p) ==
    IF p.out.kind = "throw" THEN [h EXCEPT !.user = Null]
    ELSE CASE p.op = "mount"   -> [h EXCEPT !.user = p.out.value, !.loading = FALSE]
           [] p.op = "signOut" -> [h EXCEPT !.user = Null]
           [] OTHER            -> [h EXCEPT !.user = p.out.value]

(* What the code after the await does with the outcome of the operation. *)
Resumed(h, p) ==
    IF p.out.kind = "throw" THEN h
    ELSE CASE p.op = "mount"   -> [h EXCEPT !.user = p.out.value, !.loading = FALSE]
           [] p.op = "signOut" -> [h EXCEPT !.user = Null]
           [] OTHER            -> [h EXCEPT !.user = p.out.value]

(* The i-th call in flight is a signIn or signUp that resolves with a user,  *)
(* and no signOut or updateProfile has been called that has yet to settle.  *)
ResolvedWithUser(h, i) ==
    /\ h.pending[i].op \in {"signIn", "signUp"}
    /\ h.pending[i].out.kind = "return"
    /\ h.pending[i].out.value # Null
    /\ \A j \in DOMAIN h.pending : h.pending[j].op \notin {"signOut", "updateProfile"}

(* the promise of the i-th call in flight is settled and the hook goes on *)
HookResume(i) ==
    /\ i \in DOMAIN hook.pending
    /\ EventLoopIdle \/ hook.pending[i].micro
    /\ hook' = [Resumed(hook, hook.pending[i]) EXCEPT
                    !.pending = Remove(hook.pending, i),
                    !.signedIn = IF ResolvedWithUser(hook, i) THEN hook.pending[i].out.value ELSE @]
    /\ UNCHANGED <<configVars, moduleVars, diag, last, authVars, runtime, storage>>

isAuthenticated(h) == h.user # Null

HookEnvs ==
    {e \in RunEnvs :
        DOMAIN e \cap {"NEXT_PUBLIC_ENABLE_DATABASE", "NEXT_PUBLIC_ENABLE_PAYMENTS",
                       "STRIPE_SECRET_KEY"} = {}}

InitHook == InitLoaded(HookEnvs) /\ InitApp

NextHook ==
    \/ \E up \in AnswersTo(auth) : Mount(up)
    \/ \E op \in HookOps : \E a \in AuthArgsOf(op), up \in AnswersTo(auth), now \in ClockOf(auth) :
          HookCall(op, a, up, now)
    \/ \E i \in 1..MaxPending : HookResume(i)
    \/ \E a \in AuthArgsOf("resetPassword"), up \in AnswersTo(auth) :
          AuthCall("resetPassword", a, up, 1)

SpecHook == InitHook /\ [][NextHook]_vars

----------------------------------------------------------------------------
(* lib/database.ts: the local storage provider, in a browser and on the server *)

TableOrder == <<"products", "orders">>

Tables == {TableOrder[i] : i \in DOMAIN TableOrder}

Rands == {"a"}

NoFilters == [k \in {} |-> Undefined]

DataRecords ==
    {[category |-> Some("shoes")], [category |-> Some("hats")],
     [id |-> Some("p1"), category |-> Some("shoes")], [category |-> Undefined]}

FilterRecords == {NoFilters, [category |-> Some("shoes")], [category |-> Undefined]}

RecordIds == {Some("p1"), Some("local_1_a")}

LocalArgs == [table : Tables, id : RecordIds, data : DataRecords, filters : FilterRecords]

LocalArgsOf(op) ==
    LET anyId == Some("p1")
        anyData == [category |-> Some("shoes")]
    IN  CASE op \in {"delete", "findById"} ->
                 {a \in LocalArgs : a.data = anyData /\ a.filters = NoFilters}
          [] op = "update" ->
                 {a \in LocalArgs : a.data \in {[category |-> Undefined], [category |-> Some("hats")]}
                                     /\ a.filters = NoFilters}
          [] op = "insert" ->
                 {a \in LocalArgs : a.data # [category |-> Undefined] /\ a.id = anyId
                                     /\ a.filters = NoFilters}
          [] op = "findMany" -> {a \in LocalArgs : a.id = anyId /\ a.data = anyData}
          [] OTHER -> {a \in LocalArgs : a.id = anyId /\ a.data = anyData /\ a.filters = NoFilters}

StoredIds(st) == UNION {{Field(st[t][i], "id") : i \in DOMAIN st[t]} : t \in DOMAIN st}

(* The number of records in the tables. *)
StoredRows(st, rt) ==
    LET F[i \in 0..Len(TableOrder)] ==
            IF i = 0 THEN 0 ELSE F[i - 1] + Len(getTableData(st, rt, TableOrder[i]))
    IN  F[Len(TableOrder)]

(* db.<op>(...) on the local storage provider; an insert draws an id that no *)
(* stored record has, and the tables hold at most MaxRows records.           *)
LocalDbCall(op, a, now, rnd) ==
    /\ "database" \in loaded
    /\ db.kind = "LocalStorageDatabaseProvider"
    /\ op = "insert" =>
          /\ StoredRows(storage, runtime) < MaxRows
          /\ Some("local_" \o ToString(now) \o "_" \o rnd) \notin StoredIds(storage)
    /\ LET r == LocalStorageDatabaseProvider(op, a, storage, runtime, now, rnd) IN
        /\ last' = CallLogging(op, a, r.out, r.logged)
        /\ diag' = diag \cup r.logged
        /\ storage' = r.storage
    /\ UNCHANGED <<configVars, moduleVars, authVars, hook, runtime>>

LocalEnvs ==
    {e \in RunEnvs : DOMAIN e = {"NEXT_PUBLIC_ENABLE_DATABASE", "NODE_ENV"}
                     /\ e["NODE_ENV"] = "development"}

InitLocal ==
    /\ InitLoaded(LocalEnvs)
    /\ authModule = "first"
    /\ hook = NoHook
    /\ runtime \in {"browser", "server"}
    /\ storage = <<>>

(* Only insert and update read the clock. *)
LocalClockOf(op) == IF op \in {"insert", "update"} THEN Times ELSE {1}

NextLocal ==
    \E op \in DbOps : \E a \in LocalArgsOf(op), now \in LocalClockOf(op), rnd \in Rands :
        LocalDbCall(op, a, now, rnd)

SpecLocal == InitLocal /\ [][NextLocal]_vars

----------------------------------------------------------------------------
(* The route handlers (app/api/**/route.ts). What a handler writes with     *)
(* console.error is kept with its exchange, in last.logged.                 *)

(* NextResponse.json(body, {status}); the status is 200 when none is given. *)
Json(body, status) == [status |-> status, body |-> body]

ErrorBody(message) == [error |-> message]

ErrorLog(text) == [level |-> "error", text |-> text, detail |-> <<>>]

(* What a handler leaves behind: its response, the operations of a provider *)
(* or of the hosted client that it invoked, in order, whether it read the   *)
(* payload, its console output, and the state the providers keep.           *)
Handled(response, calls, parsed, logged, us, sess, st) ==
    [response |-> response, calls |-> calls, parsed |-> parsed, logged |-> logged,
     users |-> us, session |-> sess, storage |-> st]

(* The catch block of a handler. *)
Caught(text, calls, parsed, us, sess, st) ==
    Handled(Json(ErrorBody("Internal server error"), 500), calls, parsed, {ErrorLog(text)},
            us, sess, st)

(* The value of an identifier in a module that imports the names in scope. *)
Resolve(scope, name, value) ==
    IF name \in scope THEN value ELSE Throw("ReferenceError", name \o " is not defined")

AuthRouteScope == {"NextRequest", "NextResponse", "auth", "isFeatureEnabled"}

(* db.<op>(...) on whichever provider the factory made *)
DatabaseCall(self, op, a, up, st, rt, now, rnd) ==
    IF self.kind = "LocalStorageDatabaseProvider"
    THEN LocalStorageDatabaseProvider(op, a, st, rt, now, rnd)
    ELSE LocalResult(DatabaseProviderCall(self, op, a, up), st, {})

(* const { id, ...updateData } = data *)
Rest(rec, k) == [j \in DOMAIN rec \ {k} |-> rec[j]]

(* POST /api/database/query; req: the parsed JSON body, data an optional record *)
databaseQueryPOST(cfg, self, req, up, us, sess, st, rt, now, rnd) ==
    LET Reject(message) ==
            Handled(Json(ErrorBody(message), 400), <<>>, TRUE, {}, us, sess, st)
        Failure == Caught("Database query error:", <<>>, TRUE, us, sess, st)
        Args(id, data) ==
            [table |-> req.table[1], id |-> id, data |-> data,
             filters |-> IF req.filters = Undefined THEN NoFilters ELSE req.filters[1]]
        Delegate(op, a) ==
            LET r == DatabaseCall(self, op, a, up, st, rt, now, rnd) IN
            IF r.out.kind = "throw" THEN Caught("Database query error:", <<"db." \o op>>,
                                                TRUE, us, sess, r.storage)
            ELSE Handled(Json([result |-> IF op = "delete" THEN [success |-> TRUE]
                                                            ELSE r.out.value], 200),
                         <<"db." \o op>>, TRUE, r.logged, us, sess, r.storage)
    IN
    IF ~isFeatureEnabled(cfg, "database").value
    THEN Handled(Json(ErrorBody("Database is disabled"), 400), <<>>, FALSE, {}, us, sess, st)
    ELSE IF ~Truthy(req.table) \/ ~Truthy(req.operation)
    THEN Reject("Table and operation are required")
    ELSE CASE req.operation[1] = "create" ->
                 IF req.data = Undefined THEN Reject("Data is required for create operation")
                 ELSE Delegate("insert", Args(Undefined, req.data[1]))
           [] req.operation[1] = "update" ->
                 \* !data.id is evaluated first: it throws a TypeError when data is absent
                 IF req.data = Undefined THEN Failure
                 ELSE IF ~Truthy(Field(req.data[1], "id"))
                      THEN Reject("ID and data are required for update operation")
                 ELSE Delegate("update", Args(req.data[1].id, Rest(req.data[1], "id")))
           [] req.operation[1] = "delete" ->
                 IF req.data = Undefined THEN Failure
                 ELSE IF ~Truthy(Field(req.data[1], "id"))
                      THEN Reject("ID is required for delete operation")
                 ELSE Delegate("delete", Args(req.data[1].id, req.data[1]))
           [] req.operation[1] = "findById" ->
                 IF req.data = Undefined THEN Failure
                 ELSE IF ~Truthy(Field(req.data[1], "id"))
                      THEN Reject("ID is required for findById operation")
                 ELSE Delegate("findById", Args(req.data[1].id, req.data[1]))
           [] req.operation[1] = "findMany" ->
                 Delegate("findMany", Args(Undefined, NoFilters))
           [] OTHER -> Reject("Invalid operation")

(* POST /api/auth/logout *)
logoutPOST(cfg, self, us, sess, up) ==
    IF ~isFeatureEnabled(cfg, "authentication").value
    THEN Handled(Json(ErrorBody("Authentication is disabled"), 400), <<>>, FALSE, {},
                 us, sess, <<>>)
    ELSE LET r == AuthProviderCall(self, "signOut", NoArgs, us, sess, up, 1)
             hosted == Resolve(AuthRouteScope, "isProviderEnabled",
                               isProviderEnabled(cfg, "supabase"))
         IN  IF r.out.kind = "throw" \/ hosted.kind = "throw"
             THEN Caught("Logout error:", <<"auth.signOut">>, FALSE, r.users, r.session, <<>>)
             ELSE Handled(Json([success |-> TRUE], 200), <<"auth.signOut">>, FALSE, {},
                          r.users, r.session, <<>>)

(* POST /api/auth/login; req: the parsed JSON body *)
loginPOST(cfg, self, req, us, sess, up, now) ==
    IF ~isFeatureEnabled(cfg, "authentication").value
    THEN Handled(Json(ErrorBody("Authentication is disabled"), 400), <<>>, FALSE, {},
                 us, sess, <<>>)
    ELSE IF ~TruthyText(req.email) \/ ~Truthy(req.password)
    THEN Handled(Json(ErrorBody("Email and password are required"), 400), <<>>, TRUE, {},
                 us, sess, <<>>)
    ELSE LET r == AuthProviderCall(self, "signIn", [email |-> req.email[1], name |-> Undefined],
                                   us, sess, up, now)
             hosted == Resolve(AuthRouteScope, "isProviderEnabled",
                               isProviderEnabled(cfg, "supabase"))
         IN  IF r.out.kind = "throw"
             THEN Caught("Login error:", <<"auth.signIn">>, TRUE, r.users, r.session, <<>>)
             ELSE IF r.out.value = Null
             THEN Handled(Json(ErrorBody("Invalid credentials"), 401), <<"auth.signIn">>,
                          TRUE, {}, r.users, r.session, <<>>)
             ELSE IF hosted.kind = "throw"
             THEN Caught("Login error:", <<"auth.signIn">>, TRUE, r.users, r.session, <<>>)
             ELSE Handled(Json([user |-> r.out.value], 200), <<"auth.signIn">>, TRUE, {},
                          r.users, r.session, <<>>)

(* A checkout handler that reads and validates the payload before it looks *)
(* at the capability.                                                       *)
checkoutPOST_ValidatesFirst(cfg, self, req, up, now) ==
    LET Reject(message) ==
            Handled(Json(ErrorBody(message), 400), <<>>, TRUE, {}, <<>>, Null, <<>>)
    IN
    IF req.items = Undefined \/ ~req.items[1].array \/ req.items[1].length = 0
    THEN Reject("Items are required")
    ELSE IF ~Truthy(req.successUrl) \/ ~Truthy(req.cancelUrl)
    THEN Reject("Success and cancel URLs are required")
    ELSE IF ~isFeatureEnabled(cfg, "payments").value
    THEN Reject("Payments are disabled")
    ELSE LET out == PaymentProviderCall(self, "createCheckoutSession",
                                        [successUrl |-> req.successUrl[1], customerId |-> "",
                                         email |-> <<>>, name |-> Undefined], up, now)
         IN  IF out.kind = "throw"
             THEN Caught("Checkout error:", <<"payments.createCheckoutSession">>, TRUE,
                         <<>>, Null, <<>>)
             ELSE Handled(Json([checkoutSession |-> out.value], 200),
                          <<"payments.createCheckoutSession">>, TRUE, {}, <<>>, Null, <<>>)

(* POST /api/payments/checkout; items: absent, or whether it is an array and its length *)
checkoutPOST(cfg, self, req, up, now) ==
    LET Reject(message) ==
            Handled(Json(ErrorBody(message), 400), <<>>, TRUE, {}, <<>>, Null, <<>>)
    IN
    IF ~isFeatureEnabled(cfg, "payments").value
    THEN Handled(Json(ErrorBody("Payments are disabled"), 400), <<>>, FALSE, {},
                 <<>>, Null, <<>>)
    ELSE IF req.items = Undefined \/ ~req.items[1].array \/ req.items[1].length = 0
    THEN Reject("Items are required")
    ELSE IF ~Truthy(req.successUrl) \/ ~Truthy(req.cancelUrl)
    THEN Reject("Success and cancel URLs are required")
    ELSE LET out == PaymentProviderCall(self, "createCheckoutSession",
                                        [successUrl |-> req.successUrl[1], customerId |-> "",
                                         email |-> <<>>, name |-> Undefined], up, now)
         IN  IF out.kind = "throw"
             THEN Caught("Checkout error:", <<"payments.createCheckoutSession">>, TRUE,
                         <<>>, Null, <<>>)
             ELSE Handled(Json([checkoutSession |-> out.value], 200),
                          <<"payments.createCheckoutSession">>, TRUE, {}, <<>>, Null, <<>>)

(* The routes of the hosted client; its answers are inputs: "ok", "error",  *)
(* or "none" when no row matches.                                           *)

NotConfiguredResponse == Json(ErrorBody("Supabase is not configured"), 400)

(* An answer of the handlers of the hosted client, which keep no state here. *)
Served(response, calls, parsed, logged) ==
    Handled(response, calls, parsed, logged, <<>>, Null, <<>>)

(* GET /api/supabase/orders *)
ordersGET(cfg, listed) ==
    IF ~isProviderEnabled(cfg, "supabase").value
    THEN Served(NotConfiguredResponse, <<>>, FALSE, {})
    ELSE IF listed = "error"
    THEN Served(Json(ErrorBody("Failed to fetch orders"), 500), <<"from(orders).select">>,
                TRUE, {ErrorLog("Supabase error:")})
    ELSE Served(Json([orders |-> <<>>, pagination |-> [page |-> 1, limit |-> 10]], 200),
                <<"from(orders).select">>, TRUE, {})

(* A handler that inserts the order although no product was found. *)
ordersPOST_InsertsUnfound(cfg, req, found, price, inserted, now) ==
    IF ~isProviderEnabled(cfg, "supabase").value
    THEN Served(NotConfiguredResponse, <<>>, FALSE, {})
    ELSE IF ~Truthy(req.user_id) \/ ~Truthy(req.product_id)
            \/ req.quantity = Undefined \/ req.quantity[1] = 0
    THEN Served(Json(ErrorBody("User ID, product ID, and quantity are required"), 400),
                <<>>, TRUE, {})
    ELSE IF found # "ok"
    THEN Served(Json(ErrorBody("Product not found"), 404),
                <<"from(products).select", "from(orders).insert">>, TRUE, {})
    ELSE LET order == [user_id |-> req.user_id[1], product_id |-> req.product_id[1],
                       quantity |-> req.quantity[1], total |-> price * req.quantity[1],
                       status |-> "pending",
                       stripe_payment_intent_id |-> req.stripe_payment_intent_id,
                       created_at |-> IsoString(now), updated_at |-> IsoString(now),
                       \* the row is read back with the product it refers to
                       products |-> [id |-> req.product_id[1], price |-> price]]
         IN  IF inserted = "error"
             THEN Served(Json(ErrorBody("Failed to create order"), 500),
                         <<"from(products).select", "from(orders).insert">>, TRUE,
                         {ErrorLog("Supabase error:")})
             ELSE Served(Json([order |-> order], 201),
                         <<"from(products).select", "from(orders).insert">>, TRUE, {})

(* POST /api/supabase/orders; price: the price of the product that was found *)
ordersPOST(cfg, req, found, price, inserted, now) ==
    IF ~isProviderEnabled(cfg, "supabase").value
    THEN Served(NotConfiguredResponse, <<>>, FALSE, {})
    ELSE IF ~Truthy(req.user_id) \/ ~Truthy(req.product_id)
            \/ req.quantity = Undefined \/ req.quantity[1] = 0
    THEN Served(Json(ErrorBody("User ID, product ID, and quantity are required"), 400),
                <<>>, TRUE, {})
    ELSE IF found # "ok"
    THEN Served(Json(ErrorBody("Product not found"), 404), <<"from(products).select">>,
                TRUE, {})
    ELSE LET order == [user_id |-> req.user_id[1], product_id |-> req.product_id[1],
                       quantity |-> req.quantity[1], total |-> price * req.quantity[1],
                       status |-> "pending",
                       stripe_payment_intent_id |-> req.stripe_payment_intent_id,
                       created_at |-> IsoString(now), updated_at |-> IsoString(now),
                       \* the row is read back with the product it refers to
                       products |-> [id |-> req.product_id[1], price |-> price]]
         IN  IF inserted = "error"
             THEN Served(Json(ErrorBody("Failed to create order"), 500),
                         <<"from(products).select", "from(orders).insert">>, TRUE,
                         {ErrorLog("Supabase error:")})
             ELSE Served(Json([order |-> order], 201),
                         <<"from(products).select", "from(orders).insert">>, TRUE, {})

(* POST /api/supabase/users *)
usersPOST(cfg, req, inserted, now) ==
    IF ~isProviderEnabled(cfg, "supabase").value
    THEN Served(NotConfiguredResponse, <<>>, FALSE, {})
    ELSE IF ~TruthyText(req.email) \/ ~TruthyText(req.name)
    THEN Served(Json(ErrorBody("Email and name are required"), 400), <<>>, TRUE, {})
    ELSE IF inserted = "error"
    THEN Served(Json(ErrorBody("Failed to create user"), 500), <<"from(users).insert">>,
                TRUE, {ErrorLog("Supabase error:")})
    ELSE Served(Json([user |-> [email |-> req.email[1], name |-> req.name[1],
                                role |-> "user", created_at |-> IsoString(now),
                                updated_at |-> IsoString(now)]], 201),
                <<"from(users).insert">>, TRUE, {})

(* POST /api/supabase/files; req: the fields of the form, the name of the *)
(* file being the sequence of its pieces between the dots                  *)
filesPOST(cfg, req, uploaded, now, rnd) ==
    IF ~isProviderEnabled(cfg, "supabase").value
    THEN Served(NotConfiguredResponse, <<>>, FALSE, {})
    ELSE IF req.file = Undefined
    THEN Served(Json(ErrorBody("No file provided"), 400), <<>>, TRUE, {})
    ELSE LET file == req.file[1]
             fileExt == file.name[Len(file.name)]
             filePath == OrElse(req.folder, "uploads") \o "/" \o ToString(now) \o "-" \o rnd
                            \o "." \o fileExt
         IN  IF uploaded = "error"
             THEN Served(Json(ErrorBody("Failed to upload file"), 500),
                         <<"storage.from(files).upload">>, TRUE,
                         {ErrorLog("Supabase storage error:")})
             ELSE Served(Json([file |-> [name |-> file.name, path |-> filePath]], 201),
                         <<"storage.from(files).upload", "storage.from(files).getPublicUrl">>
                            \o IF Truthy(req.userId) THEN <<"from(file_uploads).insert">>
                               ELSE <<>>,
                         TRUE, {})

(* A handler that deletes the row of a file whose removal failed. *)
filesDELETE_DeletesRowAnyway(cfg, removed) ==
    IF ~isProviderEnabled(cfg, "supabase").value
    THEN Served(NotConfiguredResponse, <<>>, FALSE, {})
    ELSE IF removed = "error"
    THEN Served(Json(ErrorBody("Failed to delete file"), 500),
                <<"storage.from(files).remove", "from(file_uploads).delete">>, FALSE,
                {ErrorLog("Supabase storage error:")})
    ELSE Served(Json([success |-> TRUE], 200),
                <<"storage.from(files).remove", "from(file_uploads).delete">>, FALSE, {})

(* DELETE /api/supabase/files/[path] *)
filesDELETE(cfg, removed) ==
    IF ~isProviderEnabled(cfg, "supabase").value
    THEN Served(NotConfiguredResponse, <<>>, FALSE, {})
    ELSE IF removed = "error"
    THEN Served(Json(ErrorBody("Failed to delete file"), 500),
                <<"storage.from(files).remove">>, FALSE,
                {ErrorLog("Supabase storage error:")})
    ELSE Served(Json([success |-> TRUE], 200),
                <<"storage.from(files).remove", "from(file_uploads).delete">>, FALSE, {})

(* A server that handles requests: last keeps the request, the response and *)
(* the operations the handler invoked.                                      *)

Routes ==
    {"POST /api/database/query", "POST /api/auth/logout", "POST /api/auth/login",
     "POST /api/payments/checkout", "GET /api/supabase/orders", "POST /api/supabase/orders",
     "POST /api/supabase/users", "POST /api/supabase/files",
     "DELETE /api/supabase/files/[path]"}

Exchange(route, req, h) ==
    [op |-> route, arg |-> req, out |-> Return(h.response), logged |-> h.logged,
     calls |-> h.calls, parsed |-> h.parsed]

(* The module of the route could not be evaluated: no handler runs. *)
Faulted(route, req, out) ==
    [op |-> route, arg |-> req, out |-> out, logged |-> {}, calls |-> <<>>, parsed |-> FALSE]

QueryOperations == {"create", "update", "delete", "findById", "findMany", "drop"}

QueryRequests ==
    [table : {Undefined, Some("products")},
     operation : {Undefined} \cup {Some(o) : o \in QueryOperations},
     data : {Undefined, Some([category |-> Some("shoes")]),
             Some([id |-> Some("p1"), category |-> Some("shoes")])},
     filters : {Undefined}]

LoginRequests ==
    [email : {Undefined, Some(<<"a", "@", "b.com">>)}, password : {Undefined, Some("pw")}]

CheckoutRequests ==
    [items : {Undefined, Some([array |-> FALSE, length |-> 0]),
              Some([array |-> TRUE, length |-> 0]), Some([array |-> TRUE, length |-> 1])},
     successUrl : {Undefined, Some("https://ok")},
     cancelUrl : {Undefined, Some("https://no")}]

OrderRequests ==
    [user_id : {Undefined, Some("u1")}, product_id : {Undefined, Some("p1")},
     quantity : {Undefined, Some(0), Some(2)}, stripe_payment_intent_id : {Undefined}]

Prices == {5, 7}

(* The price is read only of a product that was found. *)
PricesOf(found) == IF found = "ok" THEN Prices ELSE {CHOOSE p \in Prices : TRUE}

UserRequests ==
    [email : {Undefined, Some(<<"a", "@", "b.com">>)}, name : {Undefined, Some(<<"Ann">>)}]

FileForms ==
    [file : {Undefined, Some([name |-> <<"photo", "png">>])}, folder : {Undefined},
     userId : {Undefined, Some("u1")}]

HostedAnswers == {"ok", "error"}

LookupAnswers == {"ok", "none", "error"}

(* The route imports lib/database: when that module failed, so does the route. *)
DatabaseQueryRoute(req, up, now, rnd) ==
    /\ IF "database" \in loaded
       THEN LET h == databaseQueryPOST(config, db, req, up, users, session, storage,
                                       runtime, now, rnd)
            IN  /\ last' = Exchange("POST /api/database/query", req, h)
                /\ storage' = h.storage
       ELSE /\ last' = Faulted("POST /api/database/query", req,
                               getDatabaseProvider(config, env).out)
            /\ UNCHANGED storage
    /\ UNCHANGED <<configVars, moduleVars, diag, authVars, hook, runtime>>

LogoutRoute(up) ==
    /\ "auth" \in loaded
    /\ LET h == logoutPOST(config, auth, users, session, up) IN
        /\ last' = Exchange("POST /api/auth/logout", NoArgs, h)
        /\ users' = h.users
        /\ session' = h.session
    /\ UNCHANGED <<configVars, moduleVars, diag, appVars>>

LoginRoute(req, up, now) ==
    /\ "auth" \in loaded
    /\ LET h == loginPOST(config, auth, req, users, session, up, now) IN
        /\ last' = Exchange("POST /api/auth/login", req, h)
        /\ users' = h.users
        /\ session' = h.session
    /\ UNCHANGED <<configVars, moduleVars, diag, appVars>>

CheckoutRoute(req, up, now) ==
    /\ "payments" \in loaded
    /\ last' = Exchange("POST /api/payments/checkout", req,
                        checkoutPOST(config, payments, req, up, now))
    /\ UNCHANGED <<configVars, moduleVars, diag, authVars, appVars>>

OrdersGetRoute(listed) ==
    /\ last' = Exchange("GET /api/supabase/orders", NoArgs, ordersGET(config, listed))
    /\ UNCHANGED <<configVars, moduleVars, diag, authVars, appVars>>

OrdersPostRoute(req, found, price, inserted, now) ==
    /\ last' = Exchange("POST /api/supabase/orders", req,
                        ordersPOST(config, req, found, price, inserted, now))
    /\ UNCHANGED <<configVars, moduleVars, diag, authVars, appVars>>

UsersPostRoute(req, inserted, now) ==
    /\ last' = Exchange("POST /api/supabase/users", req, usersPOST(config, req, inserted, now))
    /\ UNCHANGED <<configVars, moduleVars, diag, authVars, appVars>>

FilesPostRoute(req, uploaded, now, rnd) ==
    /\ last' = Exchange("POST /api/supabase/files", req,
                        filesPOST(config, req, uploaded, now, rnd))
    /\ UNCHANGED <<configVars, moduleVars, diag, authVars, appVars>>

FilesDeleteRoute(removed) ==
    /\ last' = Exchange("DELETE /api/supabase/files/[path]", NoArgs,
                        filesDELETE(config, removed))
    /\ UNCHANGED <<configVars, moduleVars, diag, authVars, appVars>>

RouteEnvs ==
    {e \in RunEnvs :
        /\ e["NODE_ENV"] # "test"
        /\ "AUTH0_DOMAIN" \in DOMAIN e => "AUTH0_CLIENT_SECRET" \in DOMAIN e}

InitRoutes == InitLoaded(RouteEnvs) /\ InitApp

(* The hosted client answers only when it is there. *)
HostedAnswersTo(cfg, answers) == IF supabase(cfg) THEN answers ELSE {"ok"}

NextRoutes ==
    \/ \E req \in QueryRequests, up \in DbAnswersTo(db), rnd \in Rands :
          DatabaseQueryRoute(req, up, 1, rnd)
    \/ \E up \in AnswersTo(auth) : LogoutRoute(up)
    \/ \E req \in LoginRequests, up \in AnswersTo(auth) : LoginRoute(req, up, 1)
    \/ \E req \in CheckoutRequests, up \in AnswersTo(payments), now \in ClockOf(payments) :
          CheckoutRoute(req, up, now)
    \/ \E listed \in HostedAnswersTo(config, HostedAnswers) : OrdersGetRoute(listed)
    \/ \E req \in OrderRequests :
          \E found \in HostedAnswersTo(config, LookupAnswers),
             inserted \in HostedAnswersTo(config, HostedAnswers) :
             \E price \in PricesOf(found) : OrdersPostRoute(req, found, price, inserted, 1)
    \/ \E req \in UserRequests, inserted \in HostedAnswersTo(config, HostedAnswers) :
          UsersPostRoute(req, inserted, 1)
    \/ \E req \in FileForms, uploaded \in HostedAnswersTo(config, HostedAnswers), rnd \in Rands :
          FilesPostRoute(req, uploaded, 1, rnd)
    \/ \E removed \in HostedAnswersTo(config, HostedAnswers) : FilesDeleteRoute(removed)

SpecRoutes == InitRoutes /\ [][NextRoutes]_vars

----------------------------------------------------------------------------
(* middleware.ts. A path is the sequence of its pieces, each "/" a piece of *)
(* its own: <<"/", "api", "/", "auth">>.                                    *)

StartsWith(path, prefix) ==
    Len(path) >= Len(prefix) /\ SubSeq(path, 1, Len(prefix)) = prefix

protectedRoutes ==
    {<<"/", "dashboard">>, <<"/", "profile">>, <<"/", "settings">>, <<"/", "billing">>,
     <<"/", "admin">>}

publicRoutes ==
    {<<"/">>, <<"/", "auth", "/", "login">>, <<"/", "auth", "/", "signup">>,
     <<"/", "auth", "/", "reset-password">>, <<"/", "pricing">>, <<"/", "features">>,
     <<"/", "docs">>, <<"/", "api", "/", "auth">>}

adminRoutes == {<<"/", "admin">>}

MiddlewareScope == {"NextResponse", "NextRequest", "config", "isFeatureEnabled"}

PlaceholderUser == [id |-> "user-id", email |-> <<"user", "@", "example.com">>, role |-> "user"]

(* cookies: the names of the cookies of the request; an error thrown in the *)
(* try block is caught and null is returned.                                *)
getUserFromRequest(cfg, cookies) ==
    LET hosted == Resolve(MiddlewareScope, "isProviderEnabled",
                          isProviderEnabled(cfg, "supabase"))
        auth0  == Resolve(MiddlewareScope, "isProviderEnabled",
                          isProviderEnabled(cfg, "auth0"))
    IN  IF hosted.kind = "throw" THEN Null
        ELSE IF hosted.value /\ "sb-access-token" \in cookies THEN PlaceholderUser
        ELSE IF auth0.kind = "throw" THEN Null
        ELSE IF auth0.value /\ "appSession" \in cookies THEN PlaceholderUser
        ELSE Null

PassThrough == [kind |-> "next", location |-> <<>>, redirect |-> Undefined]

Redirect(location, redirect) ==
    [kind |-> "redirect", location |-> location, redirect |-> redirect]

middleware(cfg, pathname, cookies) ==
    IF \/ StartsWith(pathname, <<"/", "_next">>)
       \/ StartsWith(pathname, <<"/", "favicon.ico">>)
       \/ /\ StartsWith(pathname, <<"/", "api", "/">>)
          /\ ~StartsWith(pathname, <<"/", "api", "/", "auth">>)
    THEN PassThrough
    ELSE IF ~isFeatureEnabled(cfg, "authentication").value THEN PassThrough
    ELSE IF \E route \in publicRoutes : pathname = route \/ StartsWith(pathname, route)
    THEN PassThrough
    ELSE IF \E route \in protectedRoutes : StartsWith(pathname, route)
    THEN LET user == getUserFromRequest(cfg, cookies) IN
         IF user = Null THEN Redirect(<<"/", "auth", "/", "login">>, Some(pathname))
         ELSE IF (\E route \in adminRoutes : StartsWith(pathname, route))
                 /\ user.role # "admin"
              THEN Redirect(<<"/", "dashboard">>, Undefined)
         ELSE PassThrough
    ELSE PassThrough

Pathnames ==
    {<<"/">>, <<"/", "dashboard">>, <<"/", "admin", "/", "users">>, <<"/", "about">>,
     <<"/", "api", "/", "users">>, <<"/", "api", "/", "auth", "/", "login">>,
     <<"/", "_next", "/", "static">>}

CookieJars == SUBSET {"sb-access-token", "appSession"}

Middleware(pathname, cookies) ==
    /\ last' = Call("middleware", [pathname |-> pathname, cookies |-> cookies],
                    Return(middleware(config, pathname, cookies)))
    /\ UNCHANGED <<configVars, moduleVars, diag, authVars, appVars>>

----------------------------------------------------------------------------
(* A server process in which every exported operation is used: the helpers  *)
(* of lib/config, the factories, the operations of the exported providers,  *)
(* the route handlers and the middleware.                                   *)

AppEnvs ==
    {e \in RouteEnvs :
        /\ "AUTH0_DOMAIN" \notin DOMAIN e
        /\ DOMAIN e \cap {FeatureEnvVar(f) : f \in RunFeatures} \in
              {{}, {FeatureEnvVar(f) : f \in RunFeatures}}
        /\ "STRIPE_SECRET_KEY" \in DOMAIN e <=> "NEXT_PUBLIC_SUPABASE_URL" \in DOMAIN e}

(* The one account the operations of auth are called for. *)
AppUser == [email |-> <<"a", "@", "b.com">>, name |-> Undefined]

InitAppProcess == InitLoaded(AppEnvs) /\ authModule = "first" /\ InitApp

NextApp ==
    \/ \E name \in FeatureArgs : CallIsFeatureEnabled(name)
    \/ \E name \in FeatureArgs : CallGetFeatureFallback(name)
    \/ \E name \in ProviderArgs : CallIsProviderEnabled(name)
    \/ \E name \in ProviderArgs : CallGetProviderConfig(name)
    \/ CallValidateConfig
    \/ CallCheckRuntimeConfig
    \/ CallGetAuthProvider
    \/ CallGetDatabaseProvider
    \/ CallGetPaymentProvider
    \/ \E op \in AuthOps, up \in AnswersTo(auth) : AuthCall(op, AppUser, up, 1)
    \/ \E op \in DbOps, a \in DbArgs, up \in DbAnswersTo(db) : DbCall(op, a, up)
    \/ \E op \in DbOps, a \in LocalArgsOf("query"), rnd \in Rands : LocalDbCall(op, a, 1, rnd)
    \/ \E op \in PaymentOps : \E a \in PaymentArgsOf(op), up \in AnswersTo(payments) :
          PaymentCall(op, a, up, 1)
    \/ NextRoutes
    \/ \E pathname \in Pathnames, cookies \in CookieJars : Middleware(pathname, cookies)

SpecApp == InitAppProcess /\ [][NextApp]_vars

----------------------------------------------------------------------------
(* lib/stripe.ts: the webhook handler. A signature is the key it was made   *)
(* with and the payload it was made over; a payload is either the JSON text *)
(* of an event or text that is no JSON.                                     *)

EventTypes ==
    {"payment_intent.succeeded", "customer.subscription.created",
     "customer.subscription.updated", "customer.subscription.deleted",
     "invoice.paid", "charge.refunded"}

ObjectIds == {"obj_1", "obj_2"}

NoJson == [json |-> FALSE, type |-> "", id |-> ""]

Payloads == {[json |-> TRUE, type |-> t, id |-> i] : t \in EventTypes, i \in ObjectIds}
                \cup {NoJson}

WebhookSecrets == {"whsec_a", "whsec_b"}

(* stripe.webhooks.constructEvent: the header and the secret are required,  *)
(* the signature is compared with the one of the payload under the secret,  *)
(* and the payload is parsed.                                               *)
constructEvent(body, signature, secret) ==
    IF signature = Null \/ secret = Undefined
    THEN Throw("StripeSignatureVerificationError", "Unable to extract timestamp and signatures from header")
    ELSE IF signature # [key |-> secret[1], payload |-> body]
    THEN Throw("StripeSignatureVerificationError", "No signatures found matching the expected signature for payload")
    ELSE IF ~body.json
    THEN Throw("SyntaxError", "Unexpected token")
    ELSE Return([type |-> body.type, data |-> [object |-> [id |-> body.id]]])

ConsoleLog(text, detail) == [level |-> "log", text |-> text, detail |-> detail]

JsonResponse(body, status) ==
    [status |-> status, body |-> body, headers |-> [ContentType |-> "application/json"]]

(* A handler that reads the event from the payload before the signature is  *)
(* verified. *)
handleStripeWebhook_BranchesUnverified(e, req) ==
    LET event == constructEvent(req.body, req.signature,
                                ProcessEnv(e, "STRIPE_WEBHOOK_SECRET"))
        line  == CASE req.body.type = "payment_intent.succeeded" ->
                        ConsoleLog("Payment succeeded:", <<req.body.id>>)
                   [] req.body.type = "customer.subscription.created" ->
                        ConsoleLog("Subscription created:", <<req.body.id>>)
                   [] req.body.type = "customer.subscription.updated" ->
                        ConsoleLog("Subscription updated:", <<req.body.id>>)
                   [] req.body.type = "customer.subscription.deleted" ->
                        ConsoleLog("Subscription deleted:", <<req.body.id>>)
                   [] OTHER ->
                        ConsoleLog("Unhandled event type:", <<req.body.type>>)
    IN  IF event.kind = "throw"
        THEN [response |-> JsonResponse([error |-> "Webhook error"], 400),
              logged |-> {line, ErrorLog("Webhook error:")}]
        ELSE [response |-> JsonResponse([received |-> TRUE], 200), logged |-> {line}]

handleStripeWebhook(e, req) ==
    LET event == constructEvent(req.body, req.signature,
                                ProcessEnv(e, "STRIPE_WEBHOOK_SECRET"))
    IN  IF event.kind = "throw"
        THEN [response |-> JsonResponse([error |-> "Webhook error"], 400),
              logged |-> {ErrorLog("Webhook error:")}]
        ELSE LET type == event.value.type
                 id   == event.value.data.object.id
                 line == CASE type = "payment_intent.succeeded" ->
                                ConsoleLog("Payment succeeded:", <<id>>)
                           [] type = "customer.subscription.created" ->
                                ConsoleLog("Subscription created:", <<id>>)
                           [] type = "customer.subscription.updated" ->
                                ConsoleLog("Subscription updated:", <<id>>)
                           [] type = "customer.subscription.deleted" ->
                                ConsoleLog("Subscription deleted:", <<id>>)
                           [] OTHER ->
                                ConsoleLog("Unhandled event type:", <<type>>)
             IN  [response |-> JsonResponse([received |-> TRUE], 200), logged |-> {line}]

(* The signatures a request for a payload may carry: none, the one of the   *)
(* payload under either secret, or the one of another payload.              *)
SignaturesFor(body) ==
    {Null} \cup {[key |-> k, payload |-> p] : k \in WebhookSecrets, p \in {body, NoJson}}

(* lib/stripe is evaluated with STRIPE_SECRET_KEY set: the client is built  *)
(* when the module is imported.                                             *)
HandleStripeWebhook(body, signature) ==
    /\ stripe(env)
    /\ LET req == [body |-> body, signature |-> signature]
           h   == handleStripeWebhook(env, req)
       IN  last' = CallLogging("handleStripeWebhook", req, Return(h.response), h.logged)
    /\ UNCHANGED <<env, config, loaded, diag, authModule, auth, db, payments, users, session,
                   hook, runtime, storage>>

WebhookEnvs ==
    {e \in [{"NODE_ENV", "STRIPE_SECRET_KEY", "STRIPE_WEBHOOK_SECRET"} ->
                {"development", "x", ""} \cup WebhookSecrets] :
        /\ e["NODE_ENV"] = "development"
        /\ e["STRIPE_SECRET_KEY"] = "x"
        /\ e["STRIPE_WEBHOOK_SECRET"] \in WebhookSecrets}
      \cup {[NODE_ENV |-> "development", STRIPE_SECRET_KEY |-> "x"]}

InitWebhook == InitLoaded(WebhookEnvs) /\ authModule = "first" /\ InitApp

NextWebhook ==
    \E body \in Payloads : \E signature \in SignaturesFor(body) :
        HandleStripeWebhook(body, signature)

SpecWebhook == InitWebhook /\ [][NextWebhook]_vars

----------------------------------------------------------------------------
(* lib/database.ts, lib/payments.ts: useDatabase and usePayments in one     *)
(* mounted component. The variable hook holds the state of the hook the     *)
(* component uses: loading, error and the operations execute is awaiting.   *)

ExecuteHooks == {"useDatabase", "usePayments"}

(* useState(false), useState(null) *)
NewExecuteHook(use) == [use |-> use, loading |-> FALSE, error |-> Null, pending |-> <<>>]

(* What an operation passed to execute does: it resolves, it rejects with   *)
(* an Error, or it rejects with a value that is no Error.                   *)
OperationOutcomes ==
    {Return(<<"rows">>), Return(<<>>), Throw("Error", "connection lost"),
     Throw("string", "busy")}

(* The message of the catch block. *)
ExecuteError(use, out) ==
    IF out.error # "string" THEN Some(out.message)
    ELSE IF use = "useDatabase" THEN Some("Database error") ELSE Some("Payment error")

(* catch and finally of execute, for an operation that has settled *)
Settled(h, out) ==
    IF out.kind = "return"
    THEN [h EXCEPT !.loading = FALSE]
    ELSE [h EXCEPT !.error = ExecuteError(h.use, out), !.loading = FALSE]

(* What execute resolves with. *)
ExecuteResult(out) == IF out.kind = "return" THEN out.value ELSE Null

(* execute up to its await; an operation that throws before it returns a    *)
(* promise is caught in the same turn.                                      *)
Execute(out, sync) ==
    /\ Len(hook.pending) < MaxPending
    /\ sync => out.kind = "throw"
    /\ LET started == [hook EXCEPT !.loading = TRUE, !.error = Null] IN
        IF sync
        THEN /\ hook' = Settled(started, out)
             /\ last' = Call("execute", hook.use, Return(ExecuteResult(out)))
        ELSE /\ hook' = [started EXCEPT !.pending = Append(@, out)]
             /\ UNCHANGED last
    /\ UNCHANGED <<configVars, moduleVars, diag, authVars, runtime, storage>>

(* the i-th operation in flight settles and execute goes on *)
ExecuteSettle(i) ==
    /\ i \in DOMAIN hook.pending
    /\ hook' = [Settled(hook, hook.pending[i]) EXCEPT !.pending = Remove(hook.pending, i)]
    /\ last' = Call("execute", hook.use, Return(ExecuteResult(hook.pending[i])))
    /\ UNCHANGED <<configVars, moduleVars, diag, authVars, runtime, storage>>

InitExecute ==
    /\ InitLoaded(LocalEnvs)
    /\ authModule = "first"
    /\ runtime = "browser"
    /\ storage = <<>>
    /\ hook \in {NewExecuteHook(use) : use \in ExecuteHooks}

NextExecute ==
    \/ \E out \in OperationOutcomes, sync \in BOOLEAN : Execute(out, sync)
    \/ \E i \in 1..MaxPending : ExecuteSettle(i)

SpecExecute == InitExecute /\ [][NextExecute]_vars

----------------------------------------------------------------------------
(* Claims about the factories *)

FeatureOn(f) == isFeatureEnabled(config, f).value

ProviderOn(p) == isProviderEnabled(config, p).value

Mode == ProcessEnv(env, "NODE_ENV")

(* The class the stated order of rules selects. *)
FirstMatchAuthKind ==
    IF ~FeatureOn("authentication") THEN "NoAuthProvider"
    ELSE IF ProviderOn("supabase") THEN "SupabaseAuthProvider"
    ELSE IF ProviderOn("auth0") THEN "Auth0Provider"
    ELSE IF Mode # Some("production") THEN "MockAuthProvider"
    ELSE "NoAuthProvider"

(* C5: for every combination of flags, credentials and execution mode, a call *)
(* of getAuthProvider returns the provider of the first rule that matches:    *)
(* authentication disabled -> NoAuthProvider, supabase enabled ->             *)
(* SupabaseAuthProvider, auth0 enabled -> Auth0Provider, a mode other than    *)
(* production -> MockAuthProvider, otherwise NoAuthProvider.                  *)
AuthProviderIsFirstMatch ==
    last.op = "getAuthProvider" =>
        /\ last.out.kind = "return"
        /\ last.out.value.kind = FirstMatchAuthKind

(* No supabase credentials, no authentication flag, production mode. *)
BareProduction ==
    /\ "NEXT_PUBLIC_SUPABASE_URL" \notin DOMAIN env
    /\ "NEXT_PUBLIC_SUPABASE_ANON_KEY" \notin DOMAIN env
    /\ "NEXT_PUBLIC_ENABLE_AUTH" \notin DOMAIN env
    /\ Mode = Some("production")

DatabaseRequiredError == Throw("Error", "Supabase is required for database functionality")

(* C6 as stated: in an environment with no supabase credentials, no           *)
(* authentication flag and production mode, getDatabaseProvider fails with an *)
(* explicit error and getAuthProvider returns the disabled provider.          *)
BareProductionDatabaseFailsAuthDisabled ==
    BareProduction =>
        /\ last.op = "getDatabaseProvider" => last.out = DatabaseRequiredError
        /\ last.op = "getAuthProvider" => last.out = Return(NewNoAuthProvider)

(* C6: in an environment with the database feature enabled, no supabase       *)
(* credentials, no authentication flag and production mode,                   *)
(* getDatabaseProvider fails with an explicit error, which leaves lib/database *)
(* unloaded, and getAuthProvider returns the disabled provider.               *)
BareProductionWithDatabaseFailsAuthDisabled ==
    (BareProduction /\ FeatureOn("database")) =>
        /\ last.op = "getDatabaseProvider" => last.out = DatabaseRequiredError
        /\ last.op = "getAuthProvider" => last.out = Return(NewNoAuthProvider)
        /\ "database" \notin loaded /\ db = NoInstance
        /\ "auth" \in loaded => auth = NewNoAuthProvider

BareProductionWitness ==
    /\ BareProduction /\ FeatureOn("database")
    /\ last.op = "getDatabaseProvider" /\ last.out = DatabaseRequiredError
    /\ "auth" \in loaded /\ auth = NewNoAuthProvider

(* An enabled feature with no hosted provider, in a mode other than production. *)
FallbackCase(f, hosted) ==
    /\ FeatureOn(f)
    /\ \A p \in hosted : ~ProviderOn(p)
    /\ Mode # Some("production")

FallsBackWithWarning(instance) ==
    /\ last.out = Return(instance)
    /\ \E w \in last.logged : w.level = "warn"

(* C7: for each of the auth, database and payments factories, with the owning *)
(* feature enabled, no hosted provider enabled and a mode other than          *)
(* production, the factory returns the mock or local provider and logs a      *)
(* warning.                                                                   *)
NonProductionFallsBackWithWarning ==
    /\ (last.op = "getAuthProvider" /\ FallbackCase("authentication", {"supabase", "auth0"}))
          => FallsBackWithWarning(NewMockAuthProvider)
    /\ (last.op = "getDatabaseProvider" /\ FallbackCase("database", {"supabase"}))
          => FallsBackWithWarning(NewLocalStorageDatabaseProvider)
    /\ (last.op = "getPaymentProvider" /\ FallbackCase("payments", {"stripe"}))
          => FallsBackWithWarning(NewMockPaymentProvider)

----------------------------------------------------------------------------
(* Claims about the operations of the providers *)

AuthDisabledError == Throw("Error", "Authentication is disabled")

DatabaseDisabledError == Throw("Error", "Database is disabled")

PaymentsDisabledError == Throw("Error", "Payments are disabled")

NotConfigured(self) ==
    \/ /\ self.kind \in {"SupabaseAuthProvider", "SupabaseDatabaseProvider",
                         "StripePaymentProvider", "Auth0Provider"}
       /\ ~self.client
    \/ /\ self.kind = "Auth0Provider"
       /\ ~AllListedCredentials(env, "auth0")

NotConfiguredMessages == {"Supabase not configured", "Stripe not configured", "Auth0 not configured"}

FailsNotConfigured ==
    last.out.kind = "throw" /\ last.out.message \in NotConfiguredMessages

(* C9: every operation called on a hosted provider that is not configured *)
(* fails with a not-configured error, and returns neither null nor void.  *)
NotConfiguredProviderFails ==
    /\ (last.op \in AuthOps /\ NotConfigured(auth)) => FailsNotConfigured
    /\ (last.op \in DbOps /\ NotConfigured(db)) => FailsNotConfigured
    /\ (last.op \in PaymentOps /\ NotConfigured(payments)) => FailsNotConfigured

(* C10: a getCurrentUser that follows a signOut which returned finds no user. *)
SignOutLeavesNoUser ==
    [][(last.op = "signOut" /\ last.out.kind = "return" /\ last'.op = "getCurrentUser")
          => last'.out = Return(Null)]_vars

(* n is the text of email before its first "@", the whole of it when it has none. *)
IsTextBeforeAt(n, email) ==
    /\ \A i \in DOMAIN n : n[i] # "@"
    /\ \/ n = email
       \/ /\ Len(n) < Len(email)
          /\ SubSeq(email, 1, Len(n)) = n
          /\ email[Len(n) + 1] = "@"

(* C11: on MockAuthProvider every signIn returns a user with the given email, *)
(* named by the text of the email before "@", and a getCurrentUser that       *)
(* follows it returns a user.                                                 *)
MockSignInAuthenticates ==
    [][/\ (auth.kind = "MockAuthProvider" /\ last'.op = "signIn") =>
            /\ last'.out.kind = "return"
            /\ last'.out.value.email = last'.arg.email
            /\ IsTextBeforeAt(last'.out.value.name, last'.arg.email)
            /\ users' # <<>>
       /\ (auth.kind = "MockAuthProvider" /\ last.op = "signIn"
             /\ last'.op = "getCurrentUser") =>
            /\ last'.out.kind = "return"
            /\ \E i \in DOMAIN users : last'.out.value = users[i]]_vars

MockSignInWitness ==
    /\ auth.kind = "MockAuthProvider"
    /\ last.op = "signIn"
    /\ last.arg.email = <<"a", "@", "b.com">>
    /\ last.out.value.name = <<"a">>
    /\ users # <<>>

(* C30: on the mock provider getCurrentUser returns null before any signIn  *)
(* or signUp, and right after a signIn or signUp it returns the user that   *)
(* call returned.                                                           *)
MockCurrentUserIsMostRecent ==
    [][(auth.kind = "MockAuthProvider" /\ last'.op = "getCurrentUser") =>
          /\ users = <<>> => last'.out = Return(Null)
          /\ (last.op \in {"signIn", "signUp"} /\ last.out.kind = "return")
                => last'.out = Return(last.out.value)]_vars

----------------------------------------------------------------------------
(* Claims about useAuth *)

FallibleAuthOps == {"signIn", "signUp", "resetPassword", "updateProfile"}

Failed(p) == p.op \in FallibleAuthOps /\ p.out.kind = "throw"

(* What getCurrentUser would return in the state with users us and session sess. *)
CurrentUser(us, sess) == AuthProviderCall(auth, "getCurrentUser", NoArgs, us, sess, TRUE, 1).out

AuthStateKept ==
    /\ CurrentUser(users', session') = CurrentUser(users, session)
    /\ hook'.user = hook.user
    /\ isAuthenticated(hook') = isAuthenticated(hook)
    /\ UNCHANGED authVars

(* C12: a signIn, signUp, resetPassword or updateProfile that fails, called of *)
(* the provider or through the hook, changes neither what getCurrentUser       *)
(* returns nor the hook's user and isAuthenticated: not when the provider      *)
(* operation fails, and not when the hook goes on after the failure.           *)
FailedAuthCallKeepsState ==
    [][/\ (hook' = hook /\ last'.op \in FallibleAuthOps /\ last'.out.kind = "throw")
            => AuthStateKept
       /\ (Len(hook'.pending) = Len(hook.pending) + 1 /\ Failed(hook'.pending[Len(hook'.pending)]))
            => AuthStateKept
       /\ \A i \in DOMAIN hook.pending :
             (hook'.pending = Remove(hook.pending, i) /\ Failed(hook.pending[i]))
                => AuthStateKept]_vars

(* The hook holds a signed-in user while a later call of it has been rejected. *)
FailedAuthCallWitness ==
    /\ hook.mounted
    /\ isAuthenticated(hook)
    /\ session # Null
    /\ \E i \in DOMAIN hook.pending : Failed(hook.pending[i])

(* C26: once a signIn or signUp of the hook has resolved with a user and    *)
(* neither signOut nor updateProfile has been called since, the hook's user *)
(* is that user and isAuthenticated is true, however the promise of the     *)
(* mount-time getCurrentUser is interleaved with the one of the sign-in.    *)
SignedInUserIsKept ==
    hook.signedIn # Null => hook.user = hook.signedIn /\ isAuthenticated(hook)

(* C27: an updateProfile of the hook that does not throw leaves an          *)
(* authenticated hook authenticated, with every provider.                   *)
UpdateProfileKeepsAuthenticated ==
    [][\A i \in DOMAIN hook.pending :
          (/\ hook.pending[i].op = "updateProfile"
           /\ hook.pending[i].out.kind = "return"
           /\ hook'.pending = Remove(hook.pending, i)
           /\ isAuthenticated(hook))
             => isAuthenticated(hook')]_vars

----------------------------------------------------------------------------
(* Claims about the local storage provider *)

IsLocal == db.kind = "LocalStorageDatabaseProvider"

(* What findMany(table, filters) returns in the storage st. *)
FindMany(st, table, filters) ==
    LocalStorageDatabaseProvider("findMany", [table |-> table, id |-> Some("p1"),
                                              data |-> NoFilters, filters |-> filters],
                                 st, runtime, 1, "a").out.value

(* What findById(table, id) returns in the storage st. *)
FindById(st, table, id) ==
    LocalStorageDatabaseProvider("findById", [table |-> table, id |-> id,
                                              data |-> NoFilters, filters |-> NoFilters],
                                 st, runtime, 1, "a").out.value

(* C13: on the local storage provider every insert adds its record at the end *)
(* of what findMany returns for the table, and findMany(table, filters)       *)
(* returns, in that order, exactly those records of the table of which every  *)
(* filter key has the filter value.                                           *)
FindManyReturnsInsertedMatches ==
    [][/\ (IsLocal /\ last'.op = "insert" /\ last'.out.kind = "return") =>
            FindMany(storage', last'.arg.table, NoFilters)
               = Append(FindMany(storage, last'.arg.table, NoFilters),
                        JsonRecord(last'.out.value))
       /\ (IsLocal /\ last'.op = "findMany") =>
            LET all == FindMany(storage', last'.arg.table, NoFilters)
                Wanted(item) == \A k \in DOMAIN last'.arg.filters :
                                    Field(item, k) = last'.arg.filters[k]
            IN  last'.out = Return(Select(all, Wanted))]_vars

(* C14: on the local storage provider, in a browser and on the server and for *)
(* data with or without an id, findById of the id of the record an insert     *)
(* returned, called right after the insert, returns a record equal to it.     *)
InsertThenFindByIdRoundTrips ==
    [][(IsLocal /\ last'.op = "insert" /\ last'.out.kind = "return") =>
          LET found == FindById(storage', last'.arg.table, Field(last'.out.value, "id"))
          IN  /\ found # Null
              /\ JsonRecord(found) = JsonRecord(last'.out.value)]_vars

(* C29: on the local storage provider an update of an id that no record of  *)
(* the table has fails with 'Record with id ... not found' and leaves every *)
(* table as it was; an update of an id that is present changes the first    *)
(* record with that id to the record it returns, keeps the record's place   *)
(* in the table, and leaves the other records and the other tables as they  *)
(* were.                                                                    *)
UpdateChangesOnlyItsRecord ==
    [][(IsLocal /\ last'.op = "update") =>
          LET table == last'.arg.table
              id    == last'.arg.id
              rows  == getTableData(storage, runtime, table)
              holds == {i \in DOMAIN rows : Field(rows[i], "id") = id}
          IN  IF holds = {}
              THEN /\ last'.out = Throw("Error", "Record with id " \o id[1] \o " not found")
                   /\ storage' = storage
              ELSE LET index == CHOOSE i \in holds : \A j \in holds : i <= j IN
                   /\ last'.out.kind = "return"
                   /\ DOMAIN storage' = DOMAIN storage
                   /\ \A t \in DOMAIN storage : t # table => storage'[t] = storage[t]
                   /\ Len(storage'[table]) = Len(rows)
                   /\ \A j \in DOMAIN rows : j # index => storage'[table][j] = rows[j]
                   /\ storage'[table][index] = JsonRecord(last'.out.value)]_vars

(* The second record of a table was updated after both were stored, and the *)
(* other table holds a record too.                                          *)
UpdateChangesOnlyItsRecordWitness ==
    /\ IsLocal
    /\ last.op = "update"
    /\ last.out.kind = "return"
    /\ Len(getTableData(storage, runtime, last.arg.table)) = 2
    /\ storage[last.arg.table][2] = JsonRecord(last.out.value)
    /\ Field(storage[last.arg.table][1], "id") # last.arg.id
    /\ Field(last.out.value, "updated_at") # Field(last.out.value, "created_at")

----------------------------------------------------------------------------
(* Claims about the route handlers *)

(* The capability a route checks before anything else. *)
RouteCapability(route) ==
    CASE route = "POST /api/database/query"    -> FeatureOn("database")
      [] route \in {"POST /api/auth/login", "POST /api/auth/logout"}
                                               -> FeatureOn("authentication")
      [] route = "POST /api/payments/checkout" -> FeatureOn("payments")
      [] OTHER                                 -> ProviderOn("supabase")

(* C15: a handler whose capability is off answers 400 with an error body,   *)
(* has not read the payload and has invoked no operation of a provider or   *)
(* of the hosted client.                                                    *)
DisabledRouteAnswers400Untouched ==
    (last.op \in Routes /\ ~RouteCapability(last.op)) =>
        /\ last.out.kind = "return"
        /\ last.out.value.status = 400
        /\ DOMAIN last.out.value.body = {"error"}
        /\ ~last.parsed
        /\ last.calls = <<>>

(* A complete checkout request was turned away where payments are off. *)
DisabledRouteWitness ==
    /\ last.op = "POST /api/payments/checkout"
    /\ ~FeatureOn("payments")
    /\ last.arg.items = Some([array |-> TRUE, length |-> 1])
    /\ Truthy(last.arg.successUrl) /\ Truthy(last.arg.cancelUrl)
    /\ last.out.value.status = 400

(* Whether the fields a route requires are in the request. *)
PassesValidation(route, req) ==
    CASE route = "POST /api/database/query" ->
            /\ Truthy(req.table) /\ Truthy(req.operation)
            /\ \/ req.operation[1] = "findMany"
               \/ req.operation[1] = "create" /\ req.data # Undefined
               \/ /\ req.operation[1] \in {"update", "delete", "findById"}
                  /\ req.data # Undefined
                  /\ Truthy(Field(req.data[1], "id"))
      [] route = "POST /api/auth/login" -> TruthyText(req.email) /\ Truthy(req.password)
      [] route = "POST /api/payments/checkout" ->
            /\ req.items # Undefined /\ req.items[1].array /\ req.items[1].length > 0
            /\ Truthy(req.successUrl) /\ Truthy(req.cancelUrl)
      [] route = "POST /api/supabase/orders" ->
            /\ Truthy(req.user_id) /\ Truthy(req.product_id)
            /\ req.quantity # Undefined /\ req.quantity[1] # 0
      [] route = "POST /api/supabase/users" -> TruthyText(req.email) /\ TruthyText(req.name)
      [] route = "POST /api/supabase/files" -> req.file # Undefined
      [] OTHER -> TRUE

(* A handler ran with its capability on. *)
Admitted == last.op \in Routes /\ last.out.kind = "return" /\ RouteCapability(last.op)

(* C16, as stated: a request that passes the capability check and the      *)
(* validation has exactly one operation invoked for it, on every route, and *)
(* a request that fails the validation has none.                            *)
ExactlyOneOperationPerValidRequest ==
    Admitted =>
        Len(last.calls) = IF PassesValidation(last.op, last.arg) THEN 1 ELSE 0

(* The operations the handlers of orders and files invoke, by their answer. *)
OperationsOf(route, req, status) ==
    CASE route = "POST /api/supabase/orders" ->
            IF status = 404 THEN <<"from(products).select">>
            ELSE <<"from(products).select", "from(orders).insert">>
      [] route = "POST /api/supabase/files" ->
            IF status = 500 THEN <<"storage.from(files).upload">>
            ELSE <<"storage.from(files).upload", "storage.from(files).getPublicUrl">>
                    \o IF Truthy(req.userId) THEN <<"from(file_uploads).insert">> ELSE <<>>
      [] route = "DELETE /api/supabase/files/[path]" ->
            IF status = 500 THEN <<"storage.from(files).remove">>
            ELSE <<"storage.from(files).remove", "from(file_uploads).delete">>

SeveralOperationRoutes ==
    {"POST /api/supabase/orders", "POST /api/supabase/files",
     "DELETE /api/supabase/files/[path]"}

(* C16, amended: a request that fails the validation has no operation       *)
(* invoked; a valid one has exactly one on database/query, login, logout,   *)
(* checkout, orders GET and users POST; orders POST looks the product up    *)
(* and inserts the order only if it was found; files POST uploads and, once *)
(* uploaded, asks for the public URL and, given a userId, inserts a row;    *)
(* files DELETE removes the file and, once removed, deletes its row.        *)
OperationsPerValidRequest ==
    Admitted =>
        IF ~PassesValidation(last.op, last.arg) THEN last.calls = <<>>
        ELSE IF last.op \in SeveralOperationRoutes
             THEN last.calls = OperationsOf(last.op, last.arg, last.out.value.status)
        ELSE Len(last.calls) = 1

(* An order was created: the product was looked up and the order inserted. *)
OperationsPerValidRequestWitness ==
    /\ last.op = "POST /api/supabase/orders"
    /\ last.out.kind = "return"
    /\ last.out.value.status = 201
    /\ Len(last.calls) = 2

(* C17: with the database on, a database/query request with invalid input   *)
(* (no table or operation, an unknown operation, no data for create, no     *)
(* data or no id in it for update, delete and findById) is answered 400 and *)
(* reaches no provider operation.                                           *)
InvalidQueryAnswers400 ==
    (Admitted /\ last.op = "POST /api/database/query"
        /\ ~PassesValidation(last.op, last.arg)) =>
            /\ last.out.value.status = 400
            /\ last.calls = <<>>

(* The credential error of the hosted auth service. *)
CredentialError(out) == out.kind = "throw" /\ out.error = "AuthApiError"

(* C18: with authentication on and email and password given, the login      *)
(* handler answers 401 when the provider rejects the credentials, by        *)
(* returning no user or by raising the credential error of the hosted       *)
(* service, and answers 200 with the user as body when the provider returns *)
(* a user.                                                                  *)
LoginAnswersByCredentials ==
    [][(/\ last'.op = "POST /api/auth/login"
        /\ FeatureOn("authentication")
        /\ PassesValidation(last'.op, last'.arg))
       => \E up \in AnswersTo(auth) :
             LET r == AuthProviderCall(auth, "signIn",
                                       [email |-> last'.arg.email[1], name |-> Undefined],
                                       users, session, up, 1)
                 response == last'.out.value
             IN  /\ users' = r.users
                 /\ session' = r.session
                 /\ CredentialError(r.out) => response.status = 401
                 /\ (r.out.kind = "return" /\ r.out.value = Null) => response.status = 401
                 /\ (r.out.kind = "return" /\ r.out.value # Null) =>
                        /\ response.status = 200
                        /\ response.body = [user |-> r.out.value]]_vars

(* C19: every request is answered by its handler with a response that has  *)
(* a status and, when the status is an error, an error message; no request  *)
(* ends in a fault, also where the database is on in production without a   *)
(* hosted provider.                                                         *)
EveryRequestIsAnswered ==
    last.op \in Routes =>
        /\ last.out.kind = "return"
        /\ last.out.value.status \in 200..599
        /\ last.out.value.status >= 400 => DOMAIN last.out.value.body = {"error"}

----------------------------------------------------------------------------
(* Claims about the registry in the running process *)

(* C20: no exported operation changes a field of config: in every step all  *)
(* of the registry, the enabled flags of the features and of the providers  *)
(* included, keeps the value it had.                                        *)
ConfigIsNeverChanged == [][config' = config]_vars

(* validateConfig has reported the database without its provider, a handler *)
(* or provider has been used before it, and the database is still enabled.  *)
ConfigIsNeverChangedWitness ==
    /\ last.op = "validateConfig"
    /\ DatabaseDependencyError \in {last.out.value.errors[i] : i \in DOMAIN last.out.value.errors}
    /\ FeatureOn("database")
    /\ users # <<>>

(* C21: validateConfig only inspects: whatever rules the configuration      *)
(* violates, it returns a {valid, errors} value and throws nothing, leaves  *)
(* the configuration and the console as they were, and returns the same     *)
(* value as the validation made just before on the same configuration.      *)
ValidateConfigOnlyInspects ==
    [][last'.op = "validateConfig" =>
          /\ last'.out.kind = "return"
          /\ DOMAIN last'.out.value = {"valid", "errors"}
          /\ last'.out.value.valid = (last'.out.value.errors = <<>>)
          /\ config' = config
          /\ diag' = diag
          /\ last.op \in {"validateConfig", "checkRuntimeConfig"} =>
                last'.out.value = last.out.value]_vars

(* validateConfig has answered, after checkRuntimeConfig had warned, for a *)
(* configuration whose database has no hosted provider.                    *)
ValidateConfigOnlyInspectsWitness ==
    /\ last.op = "validateConfig"
    /\ last.out.value.errors = <<DatabaseDependencyError>>
    /\ FeatureOn("database")
    /\ diag # {}

(* The routes that read or write records of the database or of its storage. *)
DatabaseRoutes ==
    {"POST /api/database/query", "GET /api/supabase/orders", "POST /api/supabase/orders",
     "POST /api/supabase/users", "POST /api/supabase/files",
     "DELETE /api/supabase/files/[path]"}

(* C22: with the database feature off, a handler that reads or writes       *)
(* records answers with an error and invokes no operation, whether or not   *)
(* the credentials of the hosted database are set.                          *)
DatabaseOffRoutesShortCircuit ==
    (last.op \in DatabaseRoutes /\ ~FeatureOn("database")) =>
        /\ last.out.kind = "return"
        /\ last.out.value.status >= 400
        /\ last.calls = <<>>

----------------------------------------------------------------------------
(* Claims about the middleware *)

(* C23: with authentication on, a request for a path under a protected      *)
(* prefix from which no user is resolved is redirected to /auth/login with  *)
(* redirect=<path>, and is never passed through.                            *)
ProtectedPathWithoutUserRedirects ==
    (/\ last.op = "middleware"
     /\ FeatureOn("authentication")
     /\ \E route \in protectedRoutes : StartsWith(last.arg.pathname, route)
     /\ getUserFromRequest(config, last.arg.cookies) = Null)
    => last.out.value = Redirect(<<"/", "auth", "/", "login">>, Some(last.arg.pathname))

----------------------------------------------------------------------------
(* Claims about the orders *)

(* C24: orders POST answers 400 and invokes nothing when user_id,           *)
(* product_id or quantity is missing; it answers 404 having only looked the *)
(* product up when the lookup fails or finds nothing; an insert is issued   *)
(* only after the lookup, and the order created has status pending and as   *)
(* total the price looked up times the quantity.                            *)
OrderInsertedOnlyAfterLookup ==
    (Admitted /\ last.op = "POST /api/supabase/orders") =>
        LET response == last.out.value IN
        /\ ~PassesValidation(last.op, last.arg) =>
              response.status = 400 /\ last.calls = <<>>
        /\ PassesValidation(last.op, last.arg) =>
              /\ response.status \in {404, 201, 500}
              /\ last.calls[1] = "from(products).select"
              /\ response.status = 404 <=> last.calls = <<"from(products).select">>
              /\ response.status # 404 =>
                    last.calls = <<"from(products).select", "from(orders).insert">>
        /\ response.status = 201 =>
              /\ response.body.order.status = "pending"
              /\ response.body.order.total =
                    response.body.order.products.price * last.arg.quantity[1]

(* An order of two was created at the price of 7, the total being 14. *)
OrderInsertedOnlyAfterLookupWitness ==
    /\ last.op = "POST /api/supabase/orders"
    /\ last.out.value.status = 201
    /\ last.out.value.body.order.products.price = 7
    /\ last.out.value.body.order.total = 14

----------------------------------------------------------------------------
(* Claims about the webhook *)

(* The request carries the signature of its own payload under the secret of *)
(* the process, and the payload is the text of an event.                    *)
Verifies(req) ==
    /\ "STRIPE_WEBHOOK_SECRET" \in DOMAIN env
    /\ req.signature # Null
    /\ req.signature = [key |-> env["STRIPE_WEBHOOK_SECRET"], payload |-> req.body]
    /\ req.body.json

(* C25: a webhook request whose event cannot be constructed is answered 400 *)
(* with an error body and reaches no branch on the event type; a request    *)
(* that verifies is answered 200 with received true, whatever the type of   *)
(* its event.                                                               *)
WebhookAcknowledgesOnlyVerified ==
    last.op = "handleStripeWebhook" =>
        LET response == last.out.value
            branches == {l \in last.logged : l.level = "log"}
        IN  IF Verifies(last.arg)
            THEN /\ response.status = 200
                 /\ response.body = [received |-> TRUE]
                 /\ Cardinality(branches) = 1
            ELSE /\ response.status = 400
                 /\ response.body = [error |-> "Webhook error"]
                 /\ branches = {}

(* An event of a type without a case of its own was verified and            *)
(* acknowledged.                                                            *)
WebhookAcknowledgesOnlyVerifiedWitness ==
    /\ last.op = "handleStripeWebhook"
    /\ Verifies(last.arg)
    /\ last.arg.body.type = "invoice.paid"
    /\ last.out.value.status = 200

----------------------------------------------------------------------------
(* Claims about useDatabase and usePayments *)

(* C28: loading is true exactly while at least one execute call is in       *)
(* flight; with two overlapping calls it does not become false until both   *)
(* have settled.                                                            *)
LoadingExactlyWhileInFlight ==
    hook.loading <=> hook.pending # <<>>

====
